---- MODULE Spec2Model ----
(***************************************************************************)
(* Two systems of the repository:                                          *)
(*   System A  the intel hub: item store, refresh runs and the ingestion   *)
(*             orchestrator driven by the scheduler job, the admin refresh *)
(*             endpoint and the manual refresh script.                     *)
(*   System B  the deck agent: runs, assets, the job queue and its worker. *)
(* Each system has its own specification over its own variables; the       *)
(* variables of the other system stay at their initial values.             *)
(***************************************************************************)
EXTENDS Integers, Sequences, FiniteSets, TLC

\* ---------------------------------------------------------------- bounds
MaxNow == 2          \* the clock runs over 0..MaxNow (days)
MaxRuns == 2         \* RefreshRun rows created in one behaviour
MaxBatches == 2      \* batches applied one after another in SpecBatch
MaxLen == 2          \* items in one batch of SpecBatch
MaxRunsB == 2        \* deck runs created in one behaviour
MaxApiRuns == 1      \* of these, runs created through POST /api/runs
MaxFiles == 1        \* files in one upload request
MaxAssets == 2       \* files uploaded to one run
MaxInputs == 2       \* files given to the CLI builds of one behaviour
MaxStarts == 2       \* calls of JobQueue.start in one behaviour
MaxJobs == 3         \* calls of JobQueue.enqueue in one behaviour
item_retention_days == 1   \* settings.item_retention_days, scaled to the clock

\* ------------------------------------------------------- settings (A1)
max_items_per_query == 30
high_engagement_score == 20
high_engagement_comments == 10
main_competitors == <<"ring", "tp-link">>
emerging_competitor_candidates == <<"aqara", "simpliSafe", "tp-link", "wyze", "">>

NoDate == -1         \* a source record without a usable date
NoToken == "None"    \* Python None for admin_token / a missing header

\* ------------------------------------------------------ string helpers
\* str.strip() on the strings of the model
Strip(s) ==
    CASE s = " " -> ""
      [] s = " u2" -> "u2"
      [] s = "C " -> "C"
      [] s = "wyze " -> "wyze"
      [] OTHER -> s

\* str.lower() on the strings of the model
Lower(s) ==
    CASE s = "simpliSafe" -> "simplisafe"
      [] s = "Aqara" -> "aqara"
      [] s = "TP-Link" -> "tp-link"
      [] OTHER -> s

\* str.replace("-", " ") on the strings of the model
HyphenToSpace(s) ==
    CASE s = "tp-link" -> "tp link"
      [] OTHER -> s

\* every configured value taken for a token to compare with
truthy_whatever(s) == TRUE

Truthy(s) == s \notin {NoToken, ""}

Min(a, b) == IF a <= b THEN a ELSE b

RECURSIVE Concat(_)
Concat(seqs) == IF seqs = <<>> THEN <<>> ELSE Head(seqs) \o Concat(Tail(seqs))

Range(f) == {f[i] : i \in DOMAIN f}

\* ------------------------------------------------------ item store (A3/A4)
Key(p) == <<p.topic, p.entity, p.url>>

\* the columns an IntelItem row shares with an upsert payload
Values(r) == [topic |-> r.topic, entity |-> r.entity, url |-> r.url,
              title |-> r.title, summary |-> r.summary,
              published_at |-> r.published_at,
              engagement_score |-> r.engagement_score]

Row(id, p) == [id |-> id, topic |-> p.topic, entity |-> p.entity, url |-> p.url,
               title |-> p.title, summary |-> p.summary,
               published_at |-> p.published_at,
               engagement_score |-> p.engagement_score]

EmptyTx == [ins |-> {}, upd |-> {}]

IngestionStats == [inserted |-> 0, updated |-> 0, skipped |-> 0,
                   deleted_old |-> 0, errors |-> 0]

\* UniqueConstraint("topic", "entity", "url"): TRUE when the rows satisfy it
uq_topic_entity_url_off(rows) == TRUE
uq_topic_entity_url(rows) ==
    \A r1 \in rows : \A r2 \in rows : Key(r1) = Key(r2) => r1.id = r2.id

\* what a session's query sees: the committed rows with the session's own
\* pending updates applied (pending inserts are matched separately)
ViewRows(rows, tx) ==
    {IF \E u \in tx.upd : u.id = r.id
       THEN Row(r.id, (CHOOSE u \in tx.upd : u.id = r.id).p)
       ELSE r : r \in rows}

\* upsert_intel_item: select by (topic, entity, url); update the row found,
\* else add a new one.  Returns the session's pending state and the flag.
upsert_intel_item_always_insert(rows, tx, payload) ==
    [tx |-> [tx EXCEPT !.ins = @ \cup {payload}], inserted |-> TRUE]
upsert_intel_item(rows, tx, payload) ==
    LET stored == {r \in rows : Key(r) = Key(payload)}
        pending == {p \in tx.ins : Key(p) = Key(payload)}
    IN  IF stored # {}
          THEN LET existing == CHOOSE r \in stored : TRUE
               IN  [tx |-> [tx EXCEPT !.upd =
                              {u \in @ : u.id # existing.id}
                                \cup {[id |-> existing.id, p |-> payload]}],
                    inserted |-> FALSE]
        ELSE IF pending # {}
          THEN [tx |-> [tx EXCEPT !.ins = (@ \ pending) \cup {payload}],
                inserted |-> FALSE]
        ELSE [tx |-> [tx EXCEPT !.ins = @ \cup {payload}], inserted |-> TRUE]

\* _store_batch: the loop over the batch from position i on
RECURSIVE StoreBatchFrom(_, _, _, _, _, _)
StoreBatchFrom(rows, tx, stats, items, i, seen_keys) ==
    IF i > Len(items) THEN [tx |-> tx, stats |-> stats]
    ELSE LET item == items[i]
             key == Key(item)
         IN  IF item.title = "" \/ item.url = ""
               THEN StoreBatchFrom(rows, tx, [stats EXCEPT !.skipped = @ + 1],
                                   items, i + 1, seen_keys)
             ELSE IF key \in seen_keys
               THEN StoreBatchFrom(rows, tx, [stats EXCEPT !.skipped = @ + 1],
                                   items, i + 1, seen_keys)
             ELSE LET res == upsert_intel_item(rows, tx, item)
                  IN  StoreBatchFrom(rows, res.tx,
                          IF res.inserted
                            THEN [stats EXCEPT !.inserted = @ + 1]
                            ELSE [stats EXCEPT !.updated = @ + 1],
                          items, i + 1, seen_keys \cup {key})

store_batch_no_dedup(rows, tx, stats, items) ==
    LET RECURSIVE Go(_, _, _)
        Go(t, st, i) ==
            IF i > Len(items) THEN [tx |-> t, stats |-> st]
            ELSE IF items[i].title = "" \/ items[i].url = ""
              THEN Go(t, [st EXCEPT !.skipped = @ + 1], i + 1)
            ELSE LET res == upsert_intel_item(rows, t, items[i])
                 IN  Go(res.tx,
                        IF res.inserted THEN [st EXCEPT !.inserted = @ + 1]
                                        ELSE [st EXCEPT !.updated = @ + 1],
                        i + 1)
    IN  Go(tx, stats, 1)
store_batch(rows, tx, stats, items) ==
    StoreBatchFrom(rows, tx, stats, items, 1, {})

\* ids a commit may not hand out: those of stored rows and those a session
\* still refers to in a pending update
RECURSIVE InsertAll(_, _, _)
InsertAll(rows, ins, reserved) ==
    IF ins = {} THEN rows
    ELSE LET p == CHOOSE q \in ins : TRUE
             used == {r.id : r \in rows} \cup reserved
             id == CHOOSE n \in 1..(Cardinality(used) + 1) : n \notin used
         IN  InsertAll(rows \cup {Row(id, p)}, ins \ {p}, reserved)

\* the rows after flushing a session's pending state
Flushed(rows, tx, reserved) == InsertAll(ViewRows(rows, tx), tx.ins, reserved)

\* flush fails: an UPDATE that matches no row, or a violated constraint
FlushFails(rows, tx, reserved) ==
    \/ \E u \in tx.upd : ~ \E r \in rows : r.id = u.id
    \/ ~ uq_topic_entity_url(Flushed(rows, tx, reserved))

\* cleanup_old_items: the rows selected for deletion
OldItems_inclusive(rows, now_, retention_days) ==
    {r \in rows : r.published_at <= now_ - retention_days}
OldItems(rows, now_, retention_days) ==
    {r \in rows : r.published_at < now_ - retention_days}

\* ------------------------------------------------- source adapters (A5/A6)
\* what one fetch call meets: a failing source, or the entries it serves
Ok(entries) == [ok |-> TRUE, entries |-> entries]
Raises == [ok |-> FALSE, entries |-> <<>>]

\* _parse_published / _as_utc_timestamp: a missing date becomes "now"
ParsePublished(raw_date, now_) == IF raw_date = NoDate THEN now_ ELSE raw_date

\* fetch_google_news: the first max_items entries with a title and a link
fetch_google_news(entries, max_items, now_) ==
    LET first == SubSeq(entries, 1, Min(Len(entries), max_items))
        kept == SelectSeq(first, LAMBDA e : Strip(e.title) # "" /\ Strip(e.url) # "")
    IN  [i \in 1..Len(kept) |->
            [title |-> Strip(kept[i].title), url |-> Strip(kept[i].url),
             summary |-> Strip(kept[i].summary),
             published_at |-> ParsePublished(kept[i].published, now_),
             engagement_score |-> 0, upvotes |-> 0, comments |-> 0,
             mentions |-> kept[i].mentions]]

\* _extract_post_data: the url is taken as served, the title is stripped
ExtractPostData(post, now_) ==
    [title |-> Strip(post.title), url |-> post.url,
     summary |-> Strip(post.summary),
     published_at |-> ParsePublished(post.published, now_),
     engagement_score |-> post.score + post.num_comments * 2,
     upvotes |-> post.score, comments |-> post.num_comments,
     mentions |-> post.mentions]

\* fetch_reddit_posts: the posts with a title and a url
fetch_reddit_posts(posts, now_) ==
    LET extracted == [i \in 1..Len(posts) |-> ExtractPostData(posts[i], now_)]
    IN  SelectSeq(extracted, LAMBDA e : e.title # "" /\ e.url # "")

\* _fetch_news_safe / _fetch_reddit_safe: a raising call counts one error
\* and yields no items
fetch_news_safe_uncounted(outcome, max_items, stats, now_) ==
    IF outcome.ok
      THEN [items |-> fetch_google_news(outcome.entries, max_items, now_), stats |-> stats]
      ELSE [items |-> <<>>, stats |-> stats]
fetch_news_safe(outcome, max_items, stats, now_) ==
    IF outcome.ok
      THEN [items |-> fetch_google_news(outcome.entries, max_items, now_), stats |-> stats]
      ELSE [items |-> <<>>, stats |-> [stats EXCEPT !.errors = @ + 1]]

fetch_reddit_safe(outcome, stats, now_) ==
    IF outcome.ok
      THEN [items |-> fetch_reddit_posts(outcome.entries, now_), stats |-> stats]
      ELSE [items |-> <<>>, stats |-> [stats EXCEPT !.errors = @ + 1]]

\* _finalize_item (the sentiment and relevance floats are left out)
finalize_item(base, topic, entity) ==
    [topic |-> topic, entity |-> Strip(Lower(entity)),
     title |-> Strip(base.title), url |-> Strip(base.url),
     summary |-> Strip(base.summary),
     published_at |-> base.published_at,
     engagement_score |-> base.engagement_score]

FinalizeAll(items, topic, entity) ==
    [i \in 1..Len(items) |-> finalize_item(items[i], topic, entity)]

\* ---------------------------------------------------- topic pipelines (A9)
\* the fetch calls of the orchestrator, in the order the code issues them
WyzeCalls ==
    << [call |-> <<"wyze", "news", "q1">>, kind |-> "news"],
       [call |-> <<"wyze", "news", "q2">>, kind |-> "news"],
       [call |-> <<"wyze", "reddit", "q1">>, kind |-> "reddit"],
       [call |-> <<"wyze", "reddit", "q2">>, kind |-> "reddit"],
       [call |-> <<"wyze", "reddit", "q3">>, kind |-> "reddit"] >>

SentimentCalls == << [call |-> <<"sentiment", "reddit", "q1">>, kind |-> "reddit"] >>

CompetitorCalls(competitor) ==
    << [call |-> <<"competitor", "news", competitor>>, kind |-> "news"],
       [call |-> <<"competitor", "reddit", competitor>>, kind |-> "reddit"] >>

EmergingCalls ==
    << [call |-> <<"emerging", "news", "q1">>, kind |-> "news"],
       [call |-> <<"emerging", "reddit", "q1">>, kind |-> "reddit"] >>

AllCallRecs ==
    WyzeCalls \o SentimentCalls
      \o Concat([i \in 1..Len(main_competitors) |-> CompetitorCalls(main_competitors[i])])
      \o EmergingCalls

AllCalls == {AllCallRecs[i].call : i \in 1..Len(AllCallRecs)}

FetchSafe(c, feed_, stats, now_) ==
    IF c.kind = "news"
      THEN fetch_news_safe(feed_[c.call], max_items_per_query, stats, now_)
      ELSE fetch_reddit_safe(feed_[c.call], stats, now_)

\* issue the calls in order; the items of each call are finalized for
\* (topic, entity) and appended
RECURSIVE Gather(_, _, _, _, _, _)
Gather(calls, feed_, stats, now_, topic, entity) ==
    IF calls = <<>> THEN [items |-> <<>>, stats |-> stats]
    ELSE LET got == FetchSafe(Head(calls), feed_, stats, now_)
             rest == Gather(Tail(calls), feed_, got.stats, now_, topic, entity)
         IN  [items |-> FinalizeAll(got.items, topic, entity) \o rest.items,
              stats |-> rest.stats]

topic_wyze(rows, tx, stats, feed_, now_) ==
    LET g == Gather(WyzeCalls, feed_, stats, now_, "wyze", "wyze")
    IN  store_batch(rows, tx, g.stats, g.items)

topic_sentiment(rows, tx, stats, feed_, now_) ==
    LET raw_posts == fetch_reddit_safe(feed_[<<"sentiment", "reddit", "q1">>], stats, now_)
        kept == SelectSeq(raw_posts.items,
                    LAMBDA post : post.upvotes >= high_engagement_score
                                    \/ post.comments >= high_engagement_comments)
    IN  store_batch(rows, tx, raw_posts.stats, FinalizeAll(kept, "sentiment", "wyze"))

RECURSIVE GatherCompetitors(_, _, _, _)
GatherCompetitors(competitors, feed_, stats, now_) ==
    IF competitors = <<>> THEN [items |-> <<>>, stats |-> stats]
    ELSE LET g == Gather(CompetitorCalls(Head(competitors)), feed_, stats, now_,
                         "competitor", Head(competitors))
             rest == GatherCompetitors(Tail(competitors), feed_, g.stats, now_)
         IN  [items |-> g.items \o rest.items, stats |-> rest.stats]

topic_competitors(rows, tx, stats, feed_, now_) ==
    LET g == GatherCompetitors(main_competitors, feed_, stats, now_)
    IN  store_batch(rows, tx, g.stats, g.items)

normalize_key(value) == Strip(HyphenToSpace(Lower(value)))

\* sorted(): the brands of the model in string order
BrandOrder == <<"aqara", "simplisafe", "tp link", "tp-link", "wyze", "wyze ">>

\* _extract_brands: text.mentions holds the normalized names the lower-cased,
\* hyphen-free text contains
extract_brands(mentions, candidates) ==
    LET found == {Lower(c) : c \in {d \in candidates :
                      normalize_key(d) # "" /\ normalize_key(d) \in mentions}}
    IN  SelectSeq(BrandOrder, LAMBDA b : b \in found)

\* the emerging records of one generic item
EmergingOf(raw_item, all_candidates, main_set) ==
    LET matches == extract_brands(raw_item.mentions, all_candidates)
        kept == SelectSeq(matches, LAMBDA brand :
                    ~ (normalize_key(brand) \in main_set \/ brand = "wyze"))
    IN  [i \in 1..Len(kept) |-> finalize_item(raw_item, "emerging", kept[i])]

\* {_normalize_key(name) for name in settings.main_competitors}
MainSet(names) == {normalize_key(n) : n \in names}

\* {name.lower() for name in settings.emerging_competitor_candidates if name}
AllCandidates(names) == {Lower(n) : n \in {m \in names : m # ""}}

topic_emerging(rows, tx, stats, feed_, now_) ==
    LET main_set == MainSet(Range(main_competitors))
        all_candidates == AllCandidates(Range(emerging_competitor_candidates))
        generic_news == fetch_news_safe(feed_[<<"emerging", "news", "q1">>],
                                        max_items_per_query, stats, now_)
        generic_reddit == fetch_reddit_safe(feed_[<<"emerging", "reddit", "q1">>],
                                            generic_news.stats, now_)
        generic == generic_news.items \o generic_reddit.items
        collected == Concat([i \in 1..Len(generic) |->
                                EmergingOf(generic[i], all_candidates, main_set)])
    IN  store_batch(rows, tx, generic_reddit.stats, collected)

\* =====================================================================
\* System A: state
\* =====================================================================
Sessions == {"sched", "admin", "script"}

VARIABLES
    items,          \* the committed intel_items rows
    refresh_runs,   \* the committed refresh_runs rows, by id 1..Len
    now,            \* the clock (days)
    feed,           \* what each fetch call meets at present
    pc,             \* per session: where its invocation stands
    tx,             \* per session: pending inserts and updates
    stats,          \* per session: the IngestionStats of the invocation
    run,            \* per session: id of its RefreshRun, 0 when none
    log,            \* per session: the orchestrator steps done so far
    outcome,        \* per session: how the last invocation ended
    req,            \* the admin request: configured and presented token
    sb_rows, sb_tx, sb_stats, sb_batch, sb_before, sb_n
                    \* _store_batch applied on its own (SpecBatch)

avars == <<items, refresh_runs, now, feed, pc, tx, stats, run, log, outcome, req>>
sbvars == <<sb_rows, sb_tx, sb_stats, sb_batch, sb_before, sb_n>>

\* =====================================================================
\* System B: state
\* =====================================================================
VARIABLES
    b_runs,     \* the runs table, by run id ("absent" before create_run)
    b_assets,   \* the assets table: per run, its rows in creation order
    b_queue,    \* JobQueue._q
    b_thread,   \* JobQueue._thread: "none" or "alive"
    b_build,    \* the worker: the job it handles and the locals of build_run
    b_req,      \* per client: its request in flight
    b_latest,   \* the latest mirror: per file the run it was copied from,
                \* and the thumbnails it holds
    b_out,      \* per run: the files of its output directory
    b_enq,      \* per run: jobs enqueued for it so far
    b_handled   \* jobs the worker has finished with

bvars == <<b_runs, b_assets, b_queue, b_thread, b_build, b_req, b_latest,
           b_out, b_enq, b_handled>>

\* =====================================================================
\* JobQueue on its own, and the functions applied on their own
\* =====================================================================
VARIABLES
    q_threads,   \* the worker threads created so far: where each one stands
    q_thread,    \* JobQueue._thread: 0 for None, else the thread it names
    q_q,         \* JobQueue._q
    q_calls,     \* how often start() and enqueue() were called
    q_started,   \* the jobs in the order their handler was entered
    q_finished,  \* the jobs in the order their handler was left
    fn_in,       \* the arguments of the function applied
    fn_out       \* its result, once applied

qvars == <<q_threads, q_thread, q_q, q_calls, q_started, q_finished>>
fnvars == <<fn_in, fn_out>>

NotApplied == [applied |-> FALSE]

\* JobQueue.__init__
QIdle ==
    /\ q_threads = <<>>
    /\ q_thread = 0
    /\ q_q = <<>>
    /\ q_calls = [start |-> 0, enqueue |-> 0]
    /\ q_started = <<>>
    /\ q_finished = <<>>

FnIdle == fn_in = NotApplied /\ fn_out = NotApplied

\* ------------------------------------------------------ inputs of System A
e1 == [title |-> "A", url |-> "u1", summary |-> "s1", published |-> 0,
       score |-> 0, num_comments |-> 0, mentions |-> {}]
\* the same url later, edited: new title, summary, date and engagement
e1b == [title |-> "B", url |-> "u1", summary |-> "s2", published |-> 2,
        score |-> 25, num_comments |-> 1, mentions |-> {}]
e2 == [title |-> "C ", url |-> " u2", summary |-> "", published |-> 1,
       score |-> 3, num_comments |-> 12, mentions |-> {"aqara", "tp link"}]
\* a post without permalink whose url is blank
eBlank == [title |-> "Z", url |-> " ", summary |-> "", published |-> NoDate,
           score |-> 30, num_comments |-> 0, mentions |-> {"simplisafe"}]
eNoTitle == [title |-> " ", url |-> "u3", summary |-> "", published |-> 1,
             score |-> 0, num_comments |-> 0, mentions |-> {}]

Feed(over) == [c \in AllCalls |-> IF c \in DOMAIN over THEN over[c] ELSE Ok(<<>>)]

Quiet == Feed(<<>>)

World1 == Feed((<<"wyze", "news", "q1">> :> Ok(<<e1>>))
            @@ (<<"competitor", "news", "ring">> :> Ok(<<e2, eNoTitle>>))
            @@ (<<"emerging", "news", "q1">> :> Ok(<<e2>>)))

World2 == Feed((<<"wyze", "news", "q1">> :> Ok(<<e1b>>))
            @@ (<<"wyze", "news", "q2">> :> Ok(<<e1>>))
            @@ (<<"wyze", "reddit", "q2">> :> Raises)
            @@ (<<"sentiment", "reddit", "q1">> :> Ok(<<e1b, e1, eBlank>>)))

World3 == Feed((<<"competitor", "reddit", "tp-link">> :> Ok(<<e2>>))
            @@ (<<"emerging", "news", "q1">> :> Raises)
            @@ (<<"emerging", "reddit", "q1">> :> Ok(<<eBlank, e2>>)))

Worlds == {Quiet, World1, World2, World3}

Tokens == {NoToken, "secret"}
Headers == {NoToken, "secret", "wrong"}
NoReq == [expected |-> NoToken, token |-> NoToken]

\* ------------------------------------------------- refresh runs (A4)
\* create_refresh_run: add the row and commit
create_refresh_run_done(runs) ==
    Append(runs, [status |-> "success", updates |-> 0, items_ingested |-> 0])
create_refresh_run(runs) ==
    Append(runs, [status |-> "running", updates |-> 0, items_ingested |-> 0])

\* complete_refresh_run: the terminal update, committed
complete_refresh_run_noop(runs, id, status, items_ingested) == runs
complete_refresh_run(runs, id, status, items_ingested) ==
    [runs EXCEPT ![id] = [status |-> status, updates |-> @.updates + 1,
                          items_ingested |-> items_ingested]]

Reserved == UNION {{u.id : u \in tx[s].upd} : s \in Sessions}

\* ------------------------------------------------------ actions of System A
AFrame == UNCHANGED <<sbvars, bvars, qvars, fnvars>>

\* _run_refresh_job up to the call of run_full_ingestion
StartScheduled ==
    /\ pc["sched"] = "idle"
    /\ Len(refresh_runs) < MaxRuns
    /\ refresh_runs' = create_refresh_run(refresh_runs)
    /\ run' = [run EXCEPT !["sched"] = Len(refresh_runs) + 1]
    /\ pc' = [pc EXCEPT !["sched"] = "wyze"]
    /\ UNCHANGED <<items, now, feed, tx, stats, log, outcome, req>>
    /\ AFrame

\* manual_refresh up to the call of run_full_ingestion, for a configured
\* admin_token and a presented x-intel-token header
StartAdmin(expected, token) ==
    /\ pc["admin"] = "idle"
    /\ req' = [expected |-> expected, token |-> token]
    /\ IF Truthy(expected) /\ token # expected
         THEN /\ pc' = [pc EXCEPT !["admin"] = "done"]
              /\ outcome' = [outcome EXCEPT !["admin"] = "401"]
              /\ UNCHANGED <<refresh_runs, run>>
         ELSE /\ Len(refresh_runs) < MaxRuns
              /\ refresh_runs' = create_refresh_run(refresh_runs)
              /\ run' = [run EXCEPT !["admin"] = Len(refresh_runs) + 1]
              /\ pc' = [pc EXCEPT !["admin"] = "wyze"]
              /\ UNCHANGED outcome
    /\ UNCHANGED <<items, now, feed, tx, stats, log>>
    /\ AFrame

\* refresh_intel.py main up to the call of run_full_ingestion
StartScript ==
    /\ pc["script"] = "idle"
    /\ pc' = [pc EXCEPT !["script"] = "wyze"]
    /\ UNCHANGED <<items, refresh_runs, now, feed, tx, stats, run, log, outcome, req>>
    /\ AFrame

TopicStep(s, at, next, res) ==
    /\ pc[s] = at
    /\ tx' = [tx EXCEPT ![s] = res.tx]
    /\ stats' = [stats EXCEPT ![s] = res.stats]
    /\ log' = [log EXCEPT ![s] = Append(@, at)]
    /\ pc' = [pc EXCEPT ![s] = next]
    /\ UNCHANGED <<items, refresh_runs, now, feed, run, outcome, req>>
    /\ AFrame

\* run_full_ingestion, one topic pipeline per step
TopicWyze(s) ==
    TopicStep(s, "wyze", "sentiment", topic_wyze(items, tx[s], stats[s], feed, now))

\* the sentiment pipeline followed by the emerging one
TopicSentimentThenEmerging(s) ==
    TopicStep(s, "sentiment", "emerging", topic_sentiment(items, tx[s], stats[s], feed, now))

TopicSentiment(s) ==
    TopicStep(s, "sentiment", "competitor", topic_sentiment(items, tx[s], stats[s], feed, now))

TopicCompetitors(s) ==
    TopicStep(s, "competitor", "emerging", topic_competitors(items, tx[s], stats[s], feed, now))

TopicEmerging(s) ==
    TopicStep(s, "emerging", "commit", topic_emerging(items, tx[s], stats[s], feed, now))

\* run_full_ingestion: db.commit(); a failing flush raises out of the
\* orchestrator
Commit(s) ==
    /\ pc[s] = "commit"
    /\ LET others == UNION {{u.id : u \in tx[t].upd} : t \in Sessions \ {s}}
       IN  IF FlushFails(items, tx[s], others)
             THEN /\ pc' = [pc EXCEPT ![s] = "raised"]
                  /\ UNCHANGED <<items, tx, log>>
             ELSE /\ items' = Flushed(items, tx[s], others)
                  /\ tx' = [tx EXCEPT ![s] = EmptyTx]
                  /\ log' = [log EXCEPT ![s] = Append(@, "commit")]
                  /\ pc' = [pc EXCEPT ![s] = "cleanup"]
    /\ UNCHANGED <<refresh_runs, now, feed, stats, run, outcome, req>>
    /\ AFrame

\* run_full_ingestion: stats.deleted_old = cleanup_old_items(...); return
Cleanup(s) ==
    /\ pc[s] = "cleanup"
    /\ LET old_items == OldItems(items, now, item_retention_days)
       IN  /\ items' = items \ old_items
           /\ stats' = [stats EXCEPT ![s].deleted_old = Cardinality(old_items)]
    /\ log' = [log EXCEPT ![s] = Append(@, "cleanup")]
    /\ pc' = [pc EXCEPT ![s] = "returned"]
    /\ UNCHANGED <<refresh_runs, now, feed, tx, run, outcome, req>>
    /\ AFrame

\* _run_refresh_job / manual_refresh: the orchestrator returned
CompleteSuccess(s) ==
    /\ s \in {"sched", "admin"}
    /\ pc[s] = "returned"
    /\ refresh_runs' = complete_refresh_run(refresh_runs, run[s], "success", stats[s].inserted)
    /\ outcome' = [outcome EXCEPT ![s] = "ok"]
    /\ pc' = [pc EXCEPT ![s] = "done"]
    /\ UNCHANGED <<items, now, feed, tx, stats, run, log, req>>
    /\ AFrame

\* the failed flush left in the store
rollback_skipped(rows, tx_) == Flushed(rows, tx_, {})

\* db.rollback(): the stored rows once the pending state is discarded
rollback(rows, tx_) == rows

\* _run_refresh_job / manual_refresh: the orchestrator raised
CompleteFailed(s) ==
    /\ s \in {"sched", "admin"}
    /\ pc[s] = "raised"
    /\ items' = rollback(items, tx[s])
    /\ tx' = [tx EXCEPT ![s] = EmptyTx]
    /\ refresh_runs' = complete_refresh_run(refresh_runs, run[s], "failed", 0)
    /\ outcome' = [outcome EXCEPT ![s] = IF s = "admin" THEN "500" ELSE "logged"]
    /\ pc' = [pc EXCEPT ![s] = "done"]
    /\ UNCHANGED <<now, feed, stats, run, log, req>>
    /\ AFrame

\* refresh_intel.py main: print the counters, or die with the exception
ScriptEnds ==
    /\ pc["script"] \in {"returned", "raised"}
    /\ tx' = [tx EXCEPT !["script"] = EmptyTx]
    /\ outcome' = [outcome EXCEPT !["script"] =
                      IF pc["script"] = "returned" THEN "printed" ELSE "crashed"]
    /\ pc' = [pc EXCEPT !["script"] = "done"]
    /\ UNCHANGED <<items, refresh_runs, now, feed, stats, run, log, req>>
    /\ AFrame

\* the session closes; the trigger may fire again
Close(s) ==
    /\ pc[s] = "done"
    /\ pc' = [pc EXCEPT ![s] = "idle"]
    /\ stats' = [stats EXCEPT ![s] = IngestionStats]
    /\ run' = [run EXCEPT ![s] = 0]
    /\ log' = [log EXCEPT ![s] = <<>>]
    /\ outcome' = [outcome EXCEPT ![s] = "none"]
    /\ req' = IF s = "admin" THEN NoReq ELSE req
    /\ UNCHANGED <<items, refresh_runs, now, feed, tx>>
    /\ AFrame

\* a day passes and the sources serve something else
Tick ==
    /\ now < MaxNow
    /\ now' = now + 1
    /\ feed' \in Worlds
    /\ UNCHANGED <<items, refresh_runs, pc, tx, stats, run, log, outcome, req>>
    /\ AFrame

SbIdle ==
    /\ sb_rows = {} /\ sb_tx = EmptyTx /\ sb_stats = IngestionStats
    /\ sb_batch = <<>> /\ sb_before = [rows |-> {}, tx |-> EmptyTx, stats |-> IngestionStats]
    /\ sb_n = 0

AIdle ==
    /\ items = {}
    /\ refresh_runs = <<>>
    /\ now = 0
    /\ feed = Quiet
    /\ pc = [s \in Sessions |-> "idle"]
    /\ tx = [s \in Sessions |-> EmptyTx]
    /\ stats = [s \in Sessions |-> IngestionStats]
    /\ run = [s \in Sessions |-> 0]
    /\ log = [s \in Sessions |-> <<>>]
    /\ outcome = [s \in Sessions |-> "none"]
    /\ req = NoReq


vars == <<avars, sbvars, bvars, qvars, fnvars>>

RunIds == 1..MaxRunsB
Clients == {"c1", "c2"}
Artifacts == {"deck.html", "extraction.jsonl", "insights.json", "topics.json", "thumbs"}

AbsentRun == [status |-> "absent", stage |-> "", progress_current |-> 0,
              progress_total |-> 0, message |-> <<>>, warnings |-> 0]
NoRequest == [op |-> "none", run |-> 0, pc |-> "", files |-> <<>>]
NoOut == [extraction |-> <<>>, insights |-> FALSE, topics |-> FALSE, deck |-> FALSE,
          thumbs |-> {}]
IdleBuild == [pc |-> "idle", by |-> "none", run |-> 0, pdfs |-> <<>>, targets |-> <<>>, i |-> 0,
              warnings |-> 0, extractions |-> <<>>]

\* JOB_QUEUE = JobQueue() and an empty store
BIdle ==
    /\ b_runs = [r \in RunIds |-> AbsentRun]
    /\ b_assets = [r \in RunIds |-> <<>>]
    /\ b_queue = <<>>
    /\ b_thread = "none"
    /\ b_build = IdleBuild
    /\ b_req = [c \in Clients |-> NoRequest]
    /\ b_latest = [f \in Artifacts |-> IF f = "thumbs" THEN {} ELSE 0]
    /\ b_out = [r \in RunIds |-> NoOut]
    /\ b_enq = [r \in RunIds |-> 0]
    /\ b_handled = 0

\* the rows stored after one complete, undisturbed invocation on `rows`
AfterRun(rows, feed_, now_) ==
    LET w == topic_wyze(rows, EmptyTx, IngestionStats, feed_, now_)
        st == topic_sentiment(rows, w.tx, w.stats, feed_, now_)
        c == topic_competitors(rows, st.tx, st.stats, feed_, now_)
        e == topic_emerging(rows, c.tx, c.stats, feed_, now_)
        committed == Flushed(rows, e.tx, {})
    IN  committed \ OldItems(committed, now_, item_retention_days)

AllIdle == \A s \in Sessions : pc[s] = "idle"

\* ---- the triggers one at a time, while days pass and the sources change
InitSerial == AIdle /\ SbIdle /\ BIdle /\ QIdle /\ FnIdle

NextSerial ==
    \/ AllIdle /\ StartScheduled
    \/ AllIdle /\ \E expected \in Tokens, token \in Headers : StartAdmin(expected, token)
    \/ AllIdle /\ StartScript
    \/ \E s \in Sessions : TopicWyze(s)
    \/ \E s \in Sessions : TopicSentiment(s)
    \/ \E s \in Sessions : TopicCompetitors(s)
    \/ \E s \in Sessions : TopicEmerging(s)
    \/ \E s \in Sessions : Commit(s)
    \/ \E s \in Sessions : Cleanup(s)
    \/ \E s \in Sessions : CompleteSuccess(s)
    \/ ScriptEnds
    \/ \E s \in Sessions : Close(s)
    \/ Tick

SpecSerial == InitSerial /\ [][NextSerial]_vars

\* ---- the scheduler job and the admin endpoint of one server process,
\* ---- interleaved, on a store that an earlier invocation may have filled
Server == {"sched", "admin"}

InitRace ==
    /\ SbIdle /\ BIdle /\ QIdle /\ FnIdle
    /\ refresh_runs = <<>>
    /\ now \in 0..MaxNow
    /\ feed \in Worlds
    /\ items \in {{}} \cup {AfterRun({}, w, 0) : w \in Worlds}
    /\ pc = [s \in Sessions |-> "idle"]
    /\ tx = [s \in Sessions |-> EmptyTx]
    /\ stats = [s \in Sessions |-> IngestionStats]
    /\ run = [s \in Sessions |-> 0]
    /\ log = [s \in Sessions |-> <<>>]
    /\ outcome = [s \in Sessions |-> "none"]
    /\ req = NoReq

NextRace ==
    \/ StartScheduled
    \/ StartAdmin(NoToken, NoToken)
    \/ \E s \in Server : TopicWyze(s)
    \/ \E s \in Server : TopicSentiment(s)
    \/ \E s \in Server : TopicCompetitors(s)
    \/ \E s \in Server : TopicEmerging(s)
    \/ \E s \in Server : Commit(s)
    \/ \E s \in Server : Cleanup(s)
    \/ \E s \in Server : CompleteSuccess(s)
    \/ \E s \in Server : CompleteFailed(s)
    \/ \E s \in Server : Close(s)

SpecRace == InitRace /\ [][NextRace]_vars

\* =====================================================================
\* _store_batch on its own: batches drawn from a bounded set are applied to
\* one session, with or without a commit in between
\* =====================================================================
Payload(title, url, summary, published_at, engagement_score) ==
    [topic |-> "wyze", entity |-> "wyze", url |-> url, title |-> title,
     summary |-> summary, published_at |-> published_at,
     engagement_score |-> engagement_score]

BatchItems ==
    { Payload("A", "u1", "s1", 0, 0),
      Payload("B", "u1", "s2", 2, 27),
      Payload("A", "u2", "s1", 1, 0),
      Payload("", "u1", "s1", 0, 0),
      Payload("A", "", "s1", 0, 0) }

Batches == UNION {[1..n -> BatchItems] : n \in 0..MaxLen}

SbFrame == UNCHANGED <<avars, bvars, qvars, fnvars>>

ApplyBatch ==
    /\ sb_n < MaxBatches
    /\ \E batch \in Batches :
         LET res == store_batch(sb_rows, sb_tx, sb_stats, batch)
         IN  /\ sb_batch' = batch
             /\ sb_before' = [rows |-> sb_rows, tx |-> sb_tx, stats |-> sb_stats]
             /\ sb_tx' = res.tx
             /\ sb_stats' = res.stats
    /\ sb_n' = sb_n + 1
    /\ UNCHANGED sb_rows
    /\ SbFrame

SbCommit ==
    /\ sb_tx # EmptyTx
    /\ ~ FlushFails(sb_rows, sb_tx, {})
    /\ sb_rows' = Flushed(sb_rows, sb_tx, {})
    /\ sb_tx' = EmptyTx
    /\ UNCHANGED <<sb_stats, sb_batch, sb_before, sb_n>>
    /\ SbFrame

InitBatch == AIdle /\ SbIdle /\ BIdle /\ QIdle /\ FnIdle

NextBatch == ApplyBatch \/ SbCommit

SpecBatch == InitBatch /\ [][NextBatch]_vars

\* =====================================================================
\* Properties of System A
\* =====================================================================
\* what a session can query: the values of the rows it sees and of its own
\* pending inserts
View(rows, tx_) == {Values(r) : r \in ViewRows(rows, tx_)} \cup tx_.ins

SbViewBefore == View(sb_before.rows, sb_before.tx)
SbViewNow == View(sb_rows, sb_tx)

\* C1: no two stored IntelItem rows share the same (topic, entity, url),
\* whatever way the upserts, commits and cleanups of the scheduler run and
\* of the manual refresh interleave.
C1_UniqueKey ==
    \A r1 \in items : \A r2 \in items : Key(r1) = Key(r2) => r1 = r2

\* a commit was refused because another session stored the same key first
C1_Witness ==
    \E s \in Server :
        /\ pc[s] = "raised"
        /\ \E p \in tx[s].ins : \E r \in items : Key(r) = Key(p)

\* C2: when the batch is one valid item whose key the session already sees
\* with other values, afterwards exactly one visible row has that key, it
\* carries the new values, updated grew by one and inserted did not change.
C2_SecondIngestUpdates ==
    (/\ sb_n >= 1
     /\ Len(sb_batch) = 1
     /\ sb_batch[1].title # "" /\ sb_batch[1].url # ""
     /\ \E q \in SbViewBefore : Key(q) = Key(sb_batch[1]) /\ q # sb_batch[1])
    => (/\ {q \in SbViewNow : Key(q) = Key(sb_batch[1])} = {sb_batch[1]}
        /\ Cardinality({r \in ViewRows(sb_rows, sb_tx) : Key(r) = Key(sb_batch[1])})
             + Cardinality({q \in sb_tx.ins : Key(q) = Key(sb_batch[1])}) = 1
        /\ sb_stats.updated = sb_before.stats.updated + 1
        /\ sb_stats.inserted = sb_before.stats.inserted)

\* the key was stored with title A and committed, then ingested with title B
C2_Witness ==
    /\ sb_n = 2
    /\ sb_batch = <<Payload("B", "u1", "s2", 2, 27)>>
    /\ Payload("A", "u1", "s1", 0, 0) \in {Values(r) : r \in sb_before.rows}
    /\ sb_stats.updated = 1 /\ sb_stats.inserted = 1

\* positions of the last batch
SbValid(i) == sb_batch[i].title # "" /\ sb_batch[i].url # ""
SbFirst(i) ==
    /\ SbValid(i)
    /\ \A j \in 1..(i - 1) : SbValid(j) => Key(sb_batch[j]) # Key(sb_batch[i])

\* C3: in a batch, every item with an empty title or url adds 1 to skipped
\* and is never stored; of the items sharing a key only the first is
\* upserted and each later one adds 1 to skipped, whatever is persisted.
C3_BatchSkips ==
    sb_n >= 1 =>
      LET idx == 1..Len(sb_batch)
          firsts == {i \in idx : SbFirst(i)}
      IN  /\ sb_stats.skipped - sb_before.stats.skipped
               = Cardinality({i \in idx : ~ SbValid(i)})
                 + Cardinality({i \in idx : SbValid(i) /\ ~ SbFirst(i)})
          /\ (sb_stats.inserted + sb_stats.updated)
               - (sb_before.stats.inserted + sb_before.stats.updated)
               = Cardinality(firsts)
          /\ \A q \in SbViewNow : q.title # "" /\ q.url # ""
          /\ \A i \in firsts : sb_batch[i] \in SbViewNow
          /\ \A q \in SbViewNow :
                \/ q \in SbViewBefore
                \/ \E i \in firsts : q = sb_batch[i]

\* a first batch lost an item with an empty field and was committed; the
\* second batch repeats a key that the store already holds
C3_Witness ==
    /\ sb_n = 2
    /\ sb_before.rows # {}
    /\ sb_before.stats.skipped = 1
    /\ sb_before.stats.inserted = 1
    /\ Len(sb_batch) = 2
    /\ SbFirst(1)
    /\ SbValid(2) /\ ~ SbFirst(2)
    /\ sb_stats.skipped = 2

\* C4: cleanup_old_items deletes exactly the stored items published more
\* than retention_days before now, keeps every other item, and returns the
\* number of items it deleted.
C4_CleanupExact ==
    [][\A s \in Sessions :
          (pc[s] = "cleanup" /\ pc'[s] = "returned") =>
            /\ \A r \in items :
                  (r \in items') <=> ~ (now - r.published_at > item_retention_days)
            /\ items' \subseteq items
            /\ stats'[s].deleted_old = Cardinality(items) - Cardinality(items')]_vars

\* a cleanup deleted an old item and left a younger one stored
C4_Witness ==
    \E s \in Sessions :
        /\ pc[s] = "returned"
        /\ stats[s].deleted_old >= 1
        /\ \E r \in items : now - r.published_at <= item_retention_days
        /\ \A r \in items : ~ (now - r.published_at > item_retention_days)

InPipeline == {"wyze", "sentiment", "competitor", "emerging"}

HasRunningRun(s) ==
    /\ run[s] \in 1..Len(refresh_runs)
    /\ refresh_runs[run[s]].status = "running"

\* C5 as stated: every invocation of the orchestrator, the manual refresh
\* script included, has created a RefreshRun with status running before any
\* topic pipeline runs.
C5_Original ==
    \A s \in Sessions : (pc[s] \in InPipeline \/ log[s] # <<>>) => run[s] # 0

\* C5 amended: an invocation by the scheduler job or by the admin endpoint
\* holds a RefreshRun with status running before and while the topic
\* pipelines run; the manual refresh script never creates one.
C5_RunCreatedFirst ==
    /\ \A s \in Server :
          /\ pc[s] \in InPipeline => HasRunningRun(s)
          /\ log[s] # <<>> => run[s] \in 1..Len(refresh_runs)
    /\ run["script"] = 0

\* the admin endpoint has created its run and no pipeline has run yet
C5_Witness ==
    /\ pc["admin"] = "wyze" /\ log["admin"] = <<>>
    /\ HasRunningRun("admin")

Terminal == {"success", "failed"}

C6_Inv ==
    /\ \A i \in 1..Len(refresh_runs) :
          /\ refresh_runs[i].updates <= 1
          /\ refresh_runs[i].status = "running" <=> refresh_runs[i].updates = 0
          /\ refresh_runs[i].status \in Terminal \cup {"running"}
          /\ (\A s \in Server : run[s] # i) => refresh_runs[i].status \in Terminal
    /\ \A s \in Server :
          (pc[s] = "done" /\ run[s] # 0) =>
            /\ refresh_runs[run[s]].updates = 1
            /\ outcome[s] = "ok" =>
                 /\ refresh_runs[run[s]].status = "success"
                 /\ Len(log[s]) = 6
            /\ outcome[s] # "ok" =>
                 /\ refresh_runs[run[s]].status = "failed"
                 /\ tx[s] = EmptyTx
                 /\ Len(log[s]) < 6

C6_Act ==
    \A i \in 1..Len(refresh_runs) :
        refresh_runs[i].updates = 1 => refresh_runs'[i] = refresh_runs[i]

\* C6: a RefreshRun of the scheduler job or of the admin endpoint gets
\* exactly one terminal update when its invocation ends: success when the
\* orchestrator returned, failed after a rollback when it raised; it is not
\* left running and not updated again.
C6_OneTerminalUpdate == []C6_Inv /\ [][C6_Act]_vars

\* one invocation ended in success and another one in failed
C6_Witness ==
    /\ \E i \in 1..Len(refresh_runs) : refresh_runs[i].status = "success"
    /\ \E s \in Server :
          /\ pc[s] = "done" /\ outcome[s] \in {"500", "logged"}
          /\ refresh_runs[run[s]].status = "failed"

\* the fetch calls of a pipeline, and the feed with its failing calls
\* replaced by calls that return nothing
CallsOf(topic) == {c \in AllCalls : c[1] = topic}
Healed(feed_) == [c \in AllCalls |-> IF feed_[c].ok THEN feed_[c] ELSE Ok(<<>>)]
TopicResult(topic, rows, tx_, stats_, feed_, now_) ==
    CASE topic = "wyze" -> topic_wyze(rows, tx_, stats_, feed_, now_)
      [] topic = "sentiment" -> topic_sentiment(rows, tx_, stats_, feed_, now_)
      [] topic = "competitor" -> topic_competitors(rows, tx_, stats_, feed_, now_)
      [] topic = "emerging" -> topic_emerging(rows, tx_, stats_, feed_, now_)

C7_Inv ==
    \A s \in Sessions :
        /\ pc[s] # "raised"
        /\ pc[s] = "returned" =>
             log[s] = <<"wyze", "sentiment", "competitor", "emerging", "commit", "cleanup">>

C7_Act ==
    \A s \in Sessions :
        (pc[s] \in InPipeline /\ pc'[s] # pc[s]) =>
          LET healed == TopicResult(pc[s], items, tx[s], stats[s], Healed(feed), now)
          IN  /\ stats'[s].errors = stats[s].errors
                    + Cardinality({c \in CallsOf(pc[s]) : ~ feed[c].ok})
              /\ tx'[s] = healed.tx
              /\ [stats'[s] EXCEPT !.errors = 0] = [healed.stats EXCEPT !.errors = 0]
              /\ pc'[s] \in InPipeline \cup {"commit"}

\* C7: each fetch call that raises adds one to errors and contributes no
\* items; the invocation goes on through all four pipelines, the commit and
\* the cleanup and returns its stats.
C7_FetchFaultIsolated == []C7_Inv /\ [][C7_Act]_vars

\* an invocation returned its stats although fetch calls had raised
C7_Witness ==
    \E s \in Sessions :
        /\ pc[s] = "returned"
        /\ stats[s].errors >= 1
        /\ stats[s].inserted + stats[s].updated >= 1

\* =====================================================================
\* System B: the deck agent
\* =====================================================================
\* a text is a sequence of words; two of them carry a GitHub token, once as
\* it appears in an error message and once between literal backslash-b marks
PlainToken == "ghp_0123456789"
MarkedToken == "\\bghp_0123456789\\b"
Redacted == "[REDACTED]"

\* one token of each shape redact.py names: GitHub (two formats), OpenAI,
\* Anthropic; and the same tokens between a literal backslash-b on both sides
PlainTokens ==
    {PlainToken, "github_pat_0123456789", "sk-0123456789", "sk-ant-0123456789"}
MarkedTokens ==
    {MarkedToken, "\\bgithub_pat_0123456789\\b", "\\bsk-0123456789\\b",
     "\\bsk-ant-0123456789\\b"}

\* the patterns of redact.py are written r"\\bghp_...\\b": the regular
\* expression asks for a literal backslash and a b on both sides of the token
MatchesPattern(word) == word \in MarkedTokens

redact_secrets(text) ==
    [i \in 1..Len(text) |-> IF MatchesPattern(text[i]) THEN Redacted ELSE text[i]]

HasSecret(text) == \E i \in 1..Len(text) : text[i] \in {PlainToken, MarkedToken}

\* what traceback.format_exc() may hold when a handler raises
Tracebacks == { <<"Traceback", "RuntimeError">>,
                <<"Traceback", PlainToken>>,
                <<"Traceback", MarkedToken>> }

Msg(word) == <<word>>

\* update_run: UPDATE runs SET ... WHERE id = run_id (no row, no effect)
update_run(runs, run_id, fields) ==
    IF runs[run_id].status = "absent" THEN runs
    ELSE [runs EXCEPT ![run_id] =
            [k \in DOMAIN @ |-> IF k \in DOMAIN fields THEN fields[k] ELSE @[k]]]

\* add_asset: INSERT INTO assets
add_asset(assets, run_id, source_type, page, status) ==
    [assets EXCEPT ![run_id] =
        Append(@, [source_type |-> source_type, page |-> page, status |-> status])]

\* update_asset on the k-th asset of a run
update_asset(assets, run_id, k, status) ==
    [assets EXCEPT ![run_id][k].status = status]

\* the positions, in creation order, of the assets of the given source types
Indices(seq, source_types) ==
    LET F[n \in 0..Len(seq)] ==
            IF n = 0 THEN <<>>
            ELSE IF seq[n].source_type \in source_types
                   THEN Append(F[n - 1], n) ELSE F[n - 1]
    IN  F[Len(seq)]

BFrame == UNCHANGED <<avars, sbvars, qvars, fnvars>>

\* _startup: JOB_QUEUE.start(_handler); a second call finds the thread alive
Startup ==
    /\ b_thread = "none"
    /\ b_thread' = "alive"
    /\ UNCHANGED <<b_runs, b_assets, b_queue, b_build, b_req, b_latest, b_out, b_enq, b_handled>>
    /\ BFrame

Serving == b_thread = "alive"

\* POST /api/runs -> db.create_run
CreateRun ==
    /\ Serving
    /\ \E r \in RunIds :
         /\ r <= MaxApiRuns
         /\ b_runs[r].status = "absent"
         /\ \A q \in RunIds : q < r => b_runs[q].status # "absent"
         /\ b_runs' = [b_runs EXCEPT ![r] =
                          [status |-> "created", stage |-> "idle", progress_current |-> 0,
                           progress_total |-> 0, message |-> <<>>, warnings |-> 0]]
    /\ UNCHANGED <<b_assets, b_queue, b_thread, b_build, b_req, b_latest, b_out, b_enq, b_handled>>
    /\ BFrame

FileKinds == {"image", "pdf", "other"}
Uploads == UNION {[1..n -> FileKinds] : n \in 1..MaxFiles}

InFlightFiles(r) ==
    LET n[cs \in SUBSET Clients] ==
            IF cs = {} THEN 0
            ELSE LET c == CHOOSE x \in cs : TRUE
                 IN  n[cs \ {c}] + (IF b_req[c].op = "upload" /\ b_req[c].run = r
                                      THEN Len(b_req[c].files) ELSE 0)
    IN  n[Clients]

\* upload_assets: get_run and the status check
UploadBegin(c) ==
    /\ Serving
    /\ b_req[c].op = "none"
    /\ \E r \in RunIds, files \in Uploads :
         /\ Len(b_assets[r]) + InFlightFiles(r) + Len(files) <= MaxAssets
         /\ IF b_runs[r].status = "absent" \/ b_runs[r].status \notin {"created"}
              THEN UNCHANGED b_req
              ELSE b_req' = [b_req EXCEPT ![c] =
                                [op |-> "upload", run |-> r, pc |-> "store", files |-> files]]
    /\ UNCHANGED <<b_runs, b_assets, b_queue, b_thread, b_build, b_latest, b_out, b_enq, b_handled>>
    /\ BFrame

\* upload_assets: one round of the loop over the files
UploadFile(c) ==
    /\ b_req[c].op = "upload"
    /\ LET f == Head(b_req[c].files)
           r == b_req[c].run
       IN  IF f = "other"
             THEN /\ b_req' = [b_req EXCEPT ![c] = NoRequest]
                  /\ UNCHANGED b_assets
             ELSE /\ b_assets' = add_asset(b_assets, r, f, 0, "uploaded")
                  /\ b_req' = [b_req EXCEPT ![c] =
                                 IF Len(@.files) = 1 THEN NoRequest
                                 ELSE [@ EXCEPT !.files = Tail(@)]]
    /\ UNCHANGED <<b_runs, b_queue, b_thread, b_build, b_latest, b_out, b_enq, b_handled>>
    /\ BFrame

\* start_run: get_run and the status check
StartBegin(c) ==
    /\ Serving
    /\ b_req[c].op = "none"
    /\ \E r \in RunIds :
         IF b_runs[r].status = "absent" \/ b_runs[r].status \notin {"created"}
           THEN UNCHANGED b_req
           ELSE b_req' = [b_req EXCEPT ![c] =
                             [op |-> "start", run |-> r, pc |-> "update", files |-> <<>>]]
    /\ UNCHANGED <<b_runs, b_assets, b_queue, b_thread, b_build, b_latest, b_out, b_enq, b_handled>>
    /\ BFrame

\* start_run: update_run(status="queued", ...)
StartUpdate(c) ==
    /\ b_req[c].op = "start" /\ b_req[c].pc = "update"
    /\ b_runs' = update_run(b_runs, b_req[c].run,
                    [status |-> "queued", stage |-> "queued", message |-> Msg("Queued."),
                     progress_current |-> 0])
    /\ b_req' = [b_req EXCEPT ![c].pc = "enqueue"]
    /\ UNCHANGED <<b_assets, b_queue, b_thread, b_build, b_latest, b_out, b_enq, b_handled>>
    /\ BFrame

\* start_run: JOB_QUEUE.enqueue(run_id, "build")
StartEnqueue(c) ==
    /\ b_req[c].op = "start" /\ b_req[c].pc = "enqueue"
    /\ b_queue' = Append(b_queue, [run_id |-> b_req[c].run, kind |-> "build"])
    /\ b_enq' = [b_enq EXCEPT ![b_req[c].run] = @ + 1]
    /\ b_req' = [b_req EXCEPT ![c] = NoRequest]
    /\ UNCHANGED <<b_runs, b_assets, b_thread, b_build, b_latest, b_out, b_handled>>
    /\ BFrame

\* _worker: job = self._q.get(); handler(job) enters build_run
WorkerGet ==
    /\ b_thread = "alive"
    /\ b_build.pc = "idle"
    /\ b_queue # <<>>
    /\ b_build' = [IdleBuild EXCEPT !.pc = "get", !.by = "worker",
                                    !.run = Head(b_queue).run_id]
    /\ b_queue' = Tail(b_queue)
    /\ UNCHANGED <<b_runs, b_assets, b_thread, b_req, b_latest, b_out, b_enq, b_handled>>
    /\ BFrame

\* _worker: the except branch and task_done
worker_except(runs, run_id, tb) ==
    update_run(runs, run_id,
        [status |-> "failed", stage |-> "failed", message |-> redact_secrets(tb)])

\* build_run: get_run, the first update_run and list_assets
BuildBegin ==
    /\ b_build.pc = "get"
    /\ LET r == b_build.run
       IN  IF b_runs[r].status = "absent"
             THEN \E tb \in Tracebacks :
                    /\ b_runs' = worker_except(b_runs, r, tb)
                    /\ b_build' = IdleBuild
                    /\ b_handled' = b_handled + 1
                    /\ b_build.by = "worker"
             ELSE /\ b_runs' = update_run(b_runs, r,
                                  [status |-> "running", stage |-> "extracting",
                                   message |-> Msg("Starting extraction..."),
                                   progress_current |-> 0])
                  /\ b_build' = [b_build EXCEPT !.pc = "pdfs",
                                   !.pdfs = Indices(b_assets[r], {"pdf"})]
                  /\ UNCHANGED b_handled
    /\ UNCHANGED <<b_assets, b_queue, b_thread, b_req, b_latest, b_out, b_enq>>
    /\ BFrame

\* build_run: render one uploaded PDF into page images
BuildPdf ==
    /\ b_build.pc = "pdfs" /\ b_build.pdfs # <<>>
    /\ LET r == b_build.run
           k == Head(b_build.pdfs)
       IN  \E rendered \in BOOLEAN :
             /\ b_runs' = update_run(b_runs, r, [message |-> Msg("Rendering PDF")])
             /\ IF rendered
                  THEN /\ b_assets' = add_asset(b_assets, r, "pdf_page", 1, "rendered")
                       /\ b_build' = [b_build EXCEPT !.pdfs = Tail(@)]
                  ELSE /\ b_assets' = update_asset(b_assets, r, k, "failed")
                       /\ b_build' = [b_build EXCEPT !.pdfs = Tail(@), !.warnings = @ + 1]
    /\ UNCHANGED <<b_queue, b_thread, b_req, b_latest, b_out, b_enq, b_handled>>
    /\ BFrame

\* every asset of the run taken as a target
extract_targets_all(assets) == Indices(assets, {"image", "pdf_page", "pdf"})

\* extract_targets: the assets whose source_type is image or pdf_page
extract_targets_of(assets) == Indices(assets, {"image", "pdf_page"})

\* build_run: list_assets again, pick the extraction targets
BuildTargets ==
    /\ b_build.pc = "pdfs" /\ b_build.pdfs = <<>>
    /\ LET r == b_build.run
           extract_targets == extract_targets_of(b_assets[r])
       IN  /\ b_runs' = update_run(b_runs, r,
                           [progress_total |-> Len(extract_targets), progress_current |-> 0])
           /\ b_build' = [b_build EXCEPT !.pc = "extract", !.targets = extract_targets, !.i = 0]
    /\ UNCHANGED <<b_assets, b_queue, b_thread, b_req, b_latest, b_out, b_enq, b_handled>>
    /\ BFrame

\* what extract_asset does with one target: it returns an extraction, or it
\* raises an exception whose str() has these lines
ExtractErrors == { <<>>, <<"boom">> }
ExtractOutcomes ==
    {[ok |-> TRUE, error |-> <<>>]} \cup {[ok |-> FALSE, error |-> e] : e \in ExtractErrors}

\* _placeholder_failed_extraction: zero metrics, zero confidence and a trend
\* line made of error.splitlines()[0], which an empty text does not have
placeholder_failed_extraction(asset_id, error) ==
    LET lines == redact_secrets(error)
    IN  IF lines = <<>> THEN Raises
        ELSE [ok |-> TRUE,
              ex |-> [asset |-> asset_id, placeholder |-> TRUE, metrics |-> 0,
                      confidence |-> 0]]

\* the record of one target: the extraction, or the placeholder
ExtractionOf(asset_id, attempt) ==
    IF attempt.ok
      THEN [ok |-> TRUE,
            ex |-> [asset |-> asset_id, placeholder |-> FALSE, metrics |-> 1,
                    confidence |-> 1]]
      ELSE placeholder_failed_extraction(asset_id, attempt.error)

\* build_run: one round of the extraction loop; when the placeholder cannot
\* be made the exception leaves build_run
BuildExtract ==
    /\ b_build.pc = "extract" /\ b_build.i < Len(b_build.targets)
    /\ LET r == b_build.run
           i == b_build.i + 1
           k == b_build.targets[i]
       IN  \E attempt \in ExtractOutcomes, thumb \in BOOLEAN :
             LET res == ExtractionOf(k, attempt)
             IN  /\ b_assets' = update_asset(b_assets, r, k,
                                   IF attempt.ok THEN "extracted" ELSE "failed")
                 /\ IF res.ok
                      THEN /\ b_build' = [b_build EXCEPT
                                !.i = i,
                                !.warnings = @ + (IF attempt.ok THEN 0 ELSE 1)
                                               + (IF thumb THEN 0 ELSE 1),
                                !.extractions = Append(@, res.ex)]
                           /\ b_out' = [b_out EXCEPT
                                ![r].extraction = Append(@, res.ex),
                                ![r].thumbs = IF thumb THEN @ \cup {k} ELSE @]
                           /\ b_runs' = update_run(b_runs, r,
                                [message |-> Msg("Extracting"), progress_current |-> i])
                           /\ UNCHANGED b_handled
                      ELSE /\ thumb
                           /\ b_build' = IdleBuild
                           /\ UNCHANGED b_out
                           /\ IF b_build.by = "worker"
                                THEN /\ \E tb \in Tracebacks :
                                          b_runs' = worker_except(
                                              update_run(b_runs, r, [message |-> Msg("Extracting")]),
                                              r, tb)
                                     /\ b_handled' = b_handled + 1
                                ELSE /\ b_runs' = update_run(b_runs, r,
                                                     [message |-> Msg("Extracting")])
                                     /\ UNCHANGED b_handled
    /\ UNCHANGED <<b_queue, b_thread, b_req, b_latest, b_enq>>
    /\ BFrame

\* build_run: the loop is over, stage synthesizing is written
BuildSynth ==
    /\ b_build.pc = "extract" /\ b_build.i = Len(b_build.targets)
    /\ b_runs' = update_run(b_runs, b_build.run,
                    [stage |-> "synthesizing", message |-> Msg("Synthesizing topics + insights...")])
    /\ b_build' = [b_build EXCEPT !.pc = "synth"]
    /\ UNCHANGED <<b_assets, b_queue, b_thread, b_req, b_latest, b_out, b_enq, b_handled>>
    /\ BFrame

\* build_run: build_insights_document, then insights.json and topics.json
BuildInsights ==
    /\ b_build.pc = "synth"
    /\ b_out' = [b_out EXCEPT ![b_build.run].insights = TRUE, ![b_build.run].topics = TRUE]
    /\ b_build' = [b_build EXCEPT !.pc = "render"]
    /\ UNCHANGED <<b_runs, b_assets, b_queue, b_thread, b_req, b_latest, b_enq, b_handled>>
    /\ BFrame

\* build_run: stage rendering is written
BuildRender ==
    /\ b_build.pc = "render"
    /\ b_runs' = update_run(b_runs, b_build.run,
                    [stage |-> "rendering", message |-> Msg("Rendering deck.html...")])
    /\ b_build' = [b_build EXCEPT !.pc = "deck"]
    /\ UNCHANGED <<b_assets, b_queue, b_thread, b_req, b_latest, b_out, b_enq, b_handled>>
    /\ BFrame

\* the deck written over the one of the mirror
write_deck_to_latest(latest, run_id) == [latest EXCEPT !["deck.html"] = run_id]

\* write_deck(deck_html, doc): the mirror once the deck is written, which
\* goes to the directory of the run
write_deck(latest, run_id) == latest

\* build_run: write_deck
BuildDeck ==
    /\ b_build.pc = "deck"
    /\ b_out' = [b_out EXCEPT ![b_build.run].deck = TRUE]
    /\ b_latest' = write_deck(b_latest, b_build.run)
    /\ b_build' = [b_build EXCEPT !.pc = "publish"]
    /\ UNCHANGED <<b_runs, b_assets, b_queue, b_thread, b_req, b_enq, b_handled>>
    /\ BFrame

\* _publish_latest: each file of the run that exists is copied over the
\* mirror; the thumbnails of the run are copied into thumbs/ of the mirror
publish_latest_skipped(latest, run_id, out) == latest
publish_latest(latest, run_id, out) ==
    [f \in Artifacts |->
        CASE f = "deck.html" -> IF out.deck THEN run_id ELSE latest[f]
          [] f = "extraction.jsonl" -> IF out.extraction # <<>> THEN run_id ELSE latest[f]
          [] f = "insights.json" -> IF out.insights THEN run_id ELSE latest[f]
          [] f = "topics.json" -> IF out.topics THEN run_id ELSE latest[f]
          [] OTHER -> latest[f] \cup {<<run_id, k>> : k \in out.thumbs}]

\* build_run: publish, the last update_run, return; the worker's task_done
BuildPublish ==
    /\ b_build.pc = "publish"
    /\ b_latest' = publish_latest(b_latest, b_build.run, b_out[b_build.run])
    /\ b_runs' = update_run(b_runs, b_build.run,
                    [status |-> "succeeded", stage |-> "done", message |-> Msg("Done.")])
    /\ b_build' = IdleBuild
    /\ b_handled' = IF b_build.by = "worker" THEN b_handled + 1 ELSE b_handled
    /\ UNCHANGED <<b_assets, b_queue, b_thread, b_req, b_out, b_enq>>
    /\ BFrame

\* where build_run can raise once the loop is over: build_insights_document
\* or a JSON write, write_deck, _publish_latest
RaisePoints == {"synth", "deck", "publish"}

\* build_run raises out of the handler: the worker records the failure and
\* takes the next job
HandlerRaises ==
    /\ b_build.by = "worker"
    /\ b_build.pc \in RaisePoints
    /\ \E tb \in Tracebacks :
         b_runs' = worker_except(b_runs, b_build.run, tb)
    /\ b_build' = IdleBuild
    /\ b_handled' = b_handled + 1
    /\ UNCHANGED <<b_assets, b_queue, b_thread, b_req, b_latest, b_out, b_enq>>
    /\ BFrame

InitB == AIdle /\ SbIdle /\ BIdle /\ QIdle /\ FnIdle

WorkerNext ==
    \/ WorkerGet
    \/ BuildBegin
    \/ BuildPdf
    \/ BuildTargets
    \/ BuildExtract
    \/ BuildSynth
    \/ BuildInsights
    \/ BuildRender
    \/ BuildDeck
    \/ BuildPublish

NextB ==
    \/ Startup
    \/ CreateRun
    \/ \E c \in Clients : UploadBegin(c)
    \/ \E c \in Clients : UploadFile(c)
    \/ \E c \in Clients : StartBegin(c)
    \/ \E c \in Clients : StartUpdate(c)
    \/ \E c \in Clients : StartEnqueue(c)
    \/ WorkerNext
    \/ HandlerRaises

SpecB == InitB /\ [][NextB]_vars

\* ---------------------------------------------------------------------
\* System B: properties
\* ---------------------------------------------------------------------
NotCreated == {"queued", "running", "succeeded", "failed"}

\* the upload endpoint adds a row to the assets of run r in this step
UploadAdds(r) ==
    /\ Len(b_assets'[r]) = Len(b_assets[r]) + 1
    /\ b_assets'[r][Len(b_assets'[r])].status = "uploaded"

\* C8 as stated: under any interleaving of upload requests, start requests
\* and worker steps on one run, the upload endpoint records an asset only
\* while the status of the run is created; no uploaded asset is added to a
\* run that is queued, running, succeeded or failed.
C8_Original ==
    [][\A r \in RunIds : UploadAdds(r) => b_runs[r].status = "created"]_vars

\* an upload that passed its status check is still in flight while the run
\* has left created
C8_Race ==
    \E c \in Clients :
        /\ b_req[c].op = "upload"
        /\ b_runs[b_req[c].run].status \in NotCreated

\* a start request writes queued into run r in this step
StartQueues(r) ==
    \E c \in Clients :
        /\ b_req[c].op = "start" /\ b_req[c].pc = "update" /\ b_req[c].run = r
        /\ b_req'[c].pc = "enqueue"

\* C9 as stated: the start endpoint moves a run to queued and enqueues a
\* build job only when the status of the run is created, and under any
\* interleaving of start requests for one run at most one build job is ever
\* enqueued for it.
C9_Original ==
    /\ [](\A r \in RunIds : b_enq[r] <= 1)
    /\ [][\A r \in RunIds : StartQueues(r) => b_runs[r].status = "created"]_vars

\* two start requests for one run have both passed the status check
C9_Race ==
    /\ b_req["c1"].op = "start" /\ b_req["c2"].op = "start"
    /\ b_req["c1"].run = b_req["c2"].run

\* the handler of the job of the worker raises in this step
Raised ==
    /\ b_build.pc # "idle"
    /\ b_handled' = b_handled + 1
    /\ b_runs'[b_build.run].status # "succeeded"

\* the worker has recorded the failure of the run and is ready for the next job
FailureRecorded(r) ==
    /\ b_runs'[r].status = "failed"
    /\ b_runs'[r].stage = "failed"
    /\ \E tb \in Tracebacks : b_runs'[r].message = redact_secrets(tb)
    /\ b_thread' = "alive"
    /\ b_build'.pc = "idle"
    /\ b_queue' = b_queue

\* C10 as stated: when the handler of a job raises, the run of the job is
\* written with status failed, stage failed and a message that has its
\* secret-shaped words redacted, and the worker thread stays alive, ready
\* to dequeue the jobs enqueued after the failing one.
C10_Original ==
    [][Raised => /\ FailureRecorded(b_build.run)
                 /\ ~ HasSecret(b_runs'[b_build.run].message)]_vars

\* what of C10 the worker does keep: status, stage, the traceback passed
\* through redact_secrets, the thread alive and the rest of the queue intact
C10_WorkerSurvives ==
    [][Raised => FailureRecorded(b_build.run)]_vars

\* a run has failed while a later job waits in the queue
C10_LaterJobWaiting ==
    /\ \E r \in RunIds : b_runs[r].status = "failed"
    /\ b_queue # <<>>
    /\ b_thread = "alive"

\* =====================================================================
\* JobQueue on its own: start() and enqueue() called in any order, the
\* worker threads taking jobs and leaving their handler by return or raise
\* =====================================================================
QFrame == UNCHANGED <<avars, sbvars, bvars, fnvars>>

WaitingThread == [pc |-> "waiting", job |-> 0]

\* threading.Thread.is_alive: _worker loops for ever and catches what the
\* handler raises
is_alive(t) == TRUE

\* JobQueue.start
start_always_spawns(threads, thread) ==
    [threads |-> Append(threads, WaitingThread), thread |-> Len(threads) + 1]
start(threads, thread) ==
    IF thread # 0 /\ is_alive(threads[thread])
      THEN [threads |-> threads, thread |-> thread]
      ELSE [threads |-> Append(threads, WaitingThread), thread |-> Len(threads) + 1]

\* JobQueue.enqueue: ids stand for the order of the calls
enqueue(q, n, run_id) == Append(q, [id |-> n + 1, run_id |-> run_id])

QStart ==
    /\ q_calls.start < MaxStarts
    /\ LET res == start(q_threads, q_thread)
       IN  /\ q_threads' = res.threads
           /\ q_thread' = res.thread
    /\ q_calls' = [q_calls EXCEPT !.start = @ + 1]
    /\ UNCHANGED <<q_q, q_started, q_finished>>
    /\ QFrame

QEnqueue ==
    /\ q_calls.enqueue < MaxJobs
    /\ \E r \in RunIds : q_q' = enqueue(q_q, q_calls.enqueue, r)
    /\ q_calls' = [q_calls EXCEPT !.enqueue = @ + 1]
    /\ UNCHANGED <<q_threads, q_thread, q_started, q_finished>>
    /\ QFrame

\* _worker: job = self._q.get(), then handler(job) is entered
QGet(t) ==
    /\ q_threads[t].pc = "waiting"
    /\ q_q # <<>>
    /\ q_threads' = [q_threads EXCEPT ![t] = [pc |-> "handling", job |-> Head(q_q).id]]
    /\ q_q' = Tail(q_q)
    /\ q_started' = Append(q_started, Head(q_q))
    /\ UNCHANGED <<q_thread, q_calls, q_finished>>
    /\ QFrame

\* _worker: the handler returns or raises; task_done, back to the loop
QLeave(t, raised) ==
    /\ q_threads[t].pc = "handling"
    /\ q_threads' = [q_threads EXCEPT ![t] = WaitingThread]
    /\ q_finished' = Append(q_finished, [id |-> q_threads[t].job, raised |-> raised])
    /\ UNCHANGED <<q_thread, q_q, q_calls, q_started>>
    /\ QFrame

QReturn == \E t \in 1..Len(q_threads) : QLeave(t, FALSE)
QRaise == \E t \in 1..Len(q_threads) : QLeave(t, TRUE)

InitQueue == AIdle /\ SbIdle /\ BIdle /\ QIdle /\ FnIdle

NextQueue ==
    \/ QStart
    \/ QEnqueue
    \/ \E t \in 1..Len(q_threads) : QGet(t)
    \/ QReturn
    \/ QRaise

SpecQueue == InitQueue /\ [][NextQueue]_vars

Handling == {t \in 1..Len(q_threads) : q_threads[t].pc = "handling"}

\* C11: after any sequence of start() and enqueue() calls at most one job
\* handler executes at any time, and the jobs are handled in the order they
\* were enqueued: each handler is left before the next is entered, so the
\* builds of two runs never overlap.
C11_OneHandlerInOrder ==
    /\ Cardinality(Handling) <= 1
    /\ Len(q_threads) <= 1
    /\ \A i \in 1..Len(q_started) : q_started[i].id = i
    /\ \A i \in 1..Len(q_finished) : q_finished[i].id = i
    /\ Len(q_started) - Len(q_finished) = Cardinality(Handling)

\* start() was called twice; the first job raised, the job of another run
\* was handled after it and a third job is being handled
C11_Witness ==
    /\ q_calls.start = 2
    /\ Len(q_finished) = 2
    /\ q_finished[1].raised
    /\ q_started[1].run_id # q_started[2].run_id
    /\ Cardinality(Handling) = 1

\* =====================================================================
\* build_run on its own: the CLI builds one input directory after another
\* =====================================================================
CliInputs == UNION {[1..n -> {"image", "pdf"}] : n \in 0..MaxInputs}

UploadedAssets(files) ==
    [k \in 1..Len(files) |-> [source_type |-> files[k], page |-> 0, status |-> "uploaded"]]

\* the files given to the CLI so far
InputsSoFar ==
    LET n[r \in 0..MaxRunsB] ==
            IF r = 0 THEN 0 ELSE n[r - 1] + Len(Indices(b_assets[r], {"image", "pdf"}))
    IN  n[MaxRunsB]

\* cmd_build: create_run, the input files added as assets, build_run entered;
\* an input directory without a supported file ends the command
CliBuild ==
    /\ b_build.pc = "idle"
    /\ \E r \in RunIds, files \in CliInputs :
         /\ b_runs[r].status = "absent"
         /\ \A q \in RunIds : q < r => b_runs[q].status # "absent"
         /\ InputsSoFar + Len(files) <= MaxInputs
         /\ b_runs' = [b_runs EXCEPT ![r] =
                          [status |-> "created", stage |-> "idle", progress_current |-> 0,
                           progress_total |-> 0, message |-> <<>>, warnings |-> 0]]
         /\ b_assets' = [b_assets EXCEPT ![r] = UploadedAssets(files)]
         /\ b_build' = IF files = <<>> THEN IdleBuild
                       ELSE [IdleBuild EXCEPT !.pc = "get", !.by = "cli", !.run = r]
    /\ UNCHANGED <<b_queue, b_thread, b_req, b_latest, b_out, b_enq, b_handled>>
    /\ BFrame

\* build_run raises out of cmd_build: the command ends with the traceback
CliRaises ==
    /\ b_build.by = "cli"
    /\ b_build.pc \in RaisePoints
    /\ b_build' = IdleBuild
    /\ UNCHANGED <<b_runs, b_assets, b_queue, b_thread, b_req, b_latest, b_out, b_enq,
                   b_handled>>
    /\ BFrame

NextCli ==
    \/ CliBuild
    \/ BuildBegin
    \/ BuildPdf
    \/ BuildTargets
    \/ BuildExtract
    \/ BuildSynth
    \/ BuildInsights
    \/ BuildRender
    \/ BuildDeck
    \/ BuildPublish
    \/ CliRaises

SpecCli == InitB /\ [][NextCli]_vars

StageNext ==
    { <<"", "idle">>, <<"idle", "extracting">>, <<"extracting", "synthesizing">>,
      <<"synthesizing", "rendering">>, <<"rendering", "done">> }

MirrorFiles == Artifacts \ {"thumbs"}

ExtractStep ==
    /\ b_build.pc = "extract" /\ b_build.i < Len(b_build.targets)
    /\ b_build' # b_build

\* the asset of the target the loop is at
TargetAsset == b_build.targets[b_build.i + 1]

\* C13: every target the extraction loop takes up gets exactly one more
\* extraction record, in the build and in extraction.jsonl; when the
\* extraction failed the record is a placeholder with zero metrics and zero
\* confidence, the asset is marked failed, a warning is added, and the build
\* goes on to the next target.
C13_Original ==
    [][ExtractStep =>
         LET r == b_build.run
             k == TargetAsset
             n == Len(b_build.extractions)
         IN  /\ b_build'.pc = "extract" /\ b_build'.i = b_build.i + 1
             /\ Len(b_build'.extractions) = n + 1
             /\ Len(b_out'[r].extraction) = Len(b_out[r].extraction) + 1
             /\ b_build'.extractions[n + 1].asset = k
             /\ b_assets'[r][k].status \in {"extracted", "failed"}
             /\ b_assets'[r][k].status = "failed"
                  => /\ b_build'.extractions[n + 1].placeholder
                     /\ b_build'.extractions[n + 1].metrics = 0
                     /\ b_build'.extractions[n + 1].confidence = 0
                     /\ b_build'.warnings > b_build.warnings]_vars

\* a step of the PDF loop of build_run in which the rendering fails
PdfFails ==
    /\ b_build.pc = "pdfs" /\ b_build.pdfs # <<>>
    /\ b_assets[b_build.run][Head(b_build.pdfs)].status # "failed"
    /\ b_assets'[b_build.run][Head(b_build.pdfs)].status = "failed"

\* the targets of the build are image and pdf_page assets, all of them
TargetsAreImages ==
    b_build.pc = "extract" =>
        LET assets == b_assets[b_build.run]
        IN  /\ \A i \in DOMAIN b_build.targets :
                 assets[b_build.targets[i]].source_type \in {"image", "pdf_page"}
            /\ \A k \in DOMAIN assets :
                 assets[k].source_type \in {"image", "pdf_page"}
                     => \E i \in DOMAIN b_build.targets : b_build.targets[i] = k

\* C26: when the rendering of an uploaded PDF fails, build_run adds one
\* warning, marks that pdf asset failed, adds no pdf_page asset and goes on
\* with the next PDF, the run still running; the extraction loop is given
\* the image and pdf_page assets only, never a pdf asset.
C26_FailedPdfSkipped ==
    /\ [] TargetsAreImages
    /\ [][PdfFails =>
            LET r == b_build.run
                k == Head(b_build.pdfs)
            IN  /\ Len(b_assets'[r]) = Len(b_assets[r])
                /\ \A j \in DOMAIN b_assets[r] : j # k => b_assets'[r][j] = b_assets[r][j]
                /\ b_assets'[r][k].source_type = "pdf"
                /\ b_build'.warnings = b_build.warnings + 1
                /\ b_build'.pc = "pdfs" /\ b_build'.pdfs = Tail(b_build.pdfs)
                /\ b_build'.run = r
                /\ b_runs'[r].status = "running"]_vars
    /\ [][ExtractStep => b_assets[b_build.run][TargetAsset].source_type # "pdf"]_vars

\* a run of one PDF and one image succeeded: the PDF failed to render and
\* has no page asset, the image was extracted
C26_Witness ==
    \E r \in RunIds :
        /\ b_runs[r].status = "succeeded"
        /\ Len(b_assets[r]) = 2
        /\ \E k \in DOMAIN b_assets[r] :
             b_assets[r][k].source_type = "pdf" /\ b_assets[r][k].status = "failed"
        /\ \E k \in DOMAIN b_assets[r] :
             b_assets[r][k].source_type = "image" /\ b_assets[r][k].status = "extracted"

\* ---------------------------------------------------------------------
\* The output-file routes of the API. A name is a sequence of characters,
\* a location is a sequence of names below the root of the file system.

MaxPath == 3

DotDot == <<".", ".">>
OutName == <<"o">>
RunNames == { <<"a">>, <<"a", "b">> }
FileName == <<"d">>
SegNames == RunNames \cup {OutName, <<"o", "x">>, FileName}

\* Path(__file__).resolve().parents[3]
repo_root == << <<"r">> >>

\* core/paths.py out_dir
out_dir(run_id) ==
    IF run_id = <<>> THEN repo_root \o <<OutName>>
    ELSE repo_root \o <<OutName, run_id>>

\* the regular files on disk: the outputs of two runs, a file in out/, a
\* file of the repository next to out/ and one in a directory next to out/
DiskFiles ==
    {out_dir(r) \o <<FileName>> : r \in RunNames \cup {<<>>}}
      \cup {repo_root \o <<FileName>>, repo_root \o << <<"o", "x">>, FileName >>}

\* Path.exists: regular files and the directories above them
Exists(loc) ==
    \E f \in DiskFiles : Len(loc) <= Len(f) /\ SubSeq(f, 1, Len(loc)) = loc

\* Path.resolve on a location without symbolic links
RECURSIVE ResolveFrom(_, _)
ResolveFrom(done, segs) ==
    IF segs = <<>> THEN done
    ELSE IF Head(segs) = DotDot
           THEN ResolveFrom(IF done = <<>> THEN <<>> ELSE SubSeq(done, 1, Len(done) - 1),
                            Tail(segs))
           ELSE ResolveFrom(Append(done, Head(segs)), Tail(segs))

resolve(loc) == ResolveFrom(<<>>, loc)

\* str(path): every name behind a separator
RECURSIVE Str(_)
Str(loc) == IF loc = <<>> THEN <<>> ELSE <<"/">> \o Head(loc) \o Str(Tail(loc))

startswith(s, prefix) ==
    Len(prefix) <= Len(s) /\ SubSeq(s, 1, Len(prefix)) = prefix

\* the location is the directory or lies below it
Inside(loc, dir) == Len(dir) <= Len(loc) /\ SubSeq(loc, 1, Len(dir)) = dir

\* base / path: an absolute path replaces the base
Join(base, absolute, path) == IF absolute THEN path ELSE base \o path

\* the check of get_out_file and latest_out_file
guard(target, base) == startswith(Str(target), Str(base))

\* get_out_file and latest_out_file from the resolved base on
out_file(base, absolute, path) ==
    LET target == resolve(Join(base, absolute, path))
    IN  IF ~ guard(target, base) THEN [applied |-> TRUE, status |-> 400, served |-> <<>>]
        ELSE IF ~ Exists(target) THEN [applied |-> TRUE, status |-> 404, served |-> <<>>]
        ELSE IF target \in DiskFiles
               THEN [applied |-> TRUE, status |-> 200, served |-> target]
               ELSE [applied |-> TRUE, status |-> 500, served |-> <<>>]

RequestPaths == UNION {[1..n -> SegNames \cup {DotDot}] : n \in 0..MaxPath}

FileRequests ==
    [route : {"run", "latest"}, run_id : RunNames, absolute : BOOLEAN, path : RequestPaths]

\* the directory the route serves from
BaseOf(request) ==
    resolve(out_dir(IF request.route = "run" THEN request.run_id ELSE <<>>))

FilesFrame == UNCHANGED <<avars, sbvars, bvars, qvars, fn_in>>

get_out_file ==
    /\ fn_out = NotApplied /\ fn_in.route = "run"
    /\ fn_out' = out_file(resolve(out_dir(fn_in.run_id)), fn_in.absolute, fn_in.path)
    /\ FilesFrame

latest_out_file ==
    /\ fn_out = NotApplied /\ fn_in.route = "latest"
    /\ fn_out' = out_file(resolve(out_dir(<<>>)), fn_in.absolute, fn_in.path)
    /\ FilesFrame

InitFiles ==
    /\ AIdle /\ SbIdle /\ BIdle /\ QIdle
    /\ fn_in \in FileRequests /\ fn_out = NotApplied

NextFiles == get_out_file \/ latest_out_file

SpecFiles == InitFiles /\ [][NextFiles]_vars

\* C14: a file is served only from inside the output directory of the
\* route, and a request whose path resolves outside that directory, a
\* neighbouring directory whose name begins with the directory's name
\* included, is answered with 400.
C14_Original ==
    fn_out.applied =>
        LET target == resolve(Join(BaseOf(fn_in), fn_in.absolute, fn_in.path))
        IN  /\ fn_out.status = 200 => Inside(fn_out.served, BaseOf(fn_in))
            /\ ~ Inside(target, BaseOf(fn_in)) => fn_out.status = 400

\* ---------------------------------------------------------------------
\* redact_secrets applied to a text, a sequence of words.

MaxText == 2

Words == PlainTokens \cup MarkedTokens \cup {"boom"}
Texts == UNION {[1..n -> Words] : n \in 0..MaxText}

Redact ==
    /\ fn_out = NotApplied
    /\ fn_out' = [applied |-> TRUE, text |-> redact_secrets(fn_in)]
    /\ UNCHANGED <<avars, sbvars, bvars, qvars, fn_in>>

InitRedact ==
    /\ AIdle /\ SbIdle /\ BIdle /\ QIdle
    /\ fn_in \in Texts /\ fn_out = NotApplied

SpecRedact == InitRedact /\ [][Redact]_vars

\* C15: redact_secrets puts [REDACTED] in the place of every GitHub token
\* of either format and of every OpenAI- or Anthropic-shaped key, and leaves
\* every other word of the text as it was.
C15_Original ==
    fn_out.applied =>
        /\ Len(fn_out.text) = Len(fn_in)
        /\ \A i \in 1..Len(fn_in) :
             IF fn_in[i] \in PlainTokens THEN fn_out.text[i] = Redacted
             ELSE fn_in[i] \notin MarkedTokens => fn_out.text[i] = fn_in[i]

\* ---------------------------------------------------------------------
\* generate_insights. An extraction is a record of its tags, the names of
\* its metrics and its confidence; an insight is a record of its topic, its
\* headline and its importance score.

MaxEx == 2
MaxTopicsIn == 2
MaxInsightsIn == 7

per_topic_cap == 5
metrics_per_asset == 6
NeedsData == "[NEEDS DATA] No trend extracted."

\* canonical_metric_name: lower case, runs of other characters to one blank
canonical_metric_name(name) ==
    CASE name = "M1" -> "m1"
      [] name = " m2 " -> "m2"
      [] name = "" -> "unknown_metric"
      [] OTHER -> name

\* m.name.strip() or canon
HeadlineOf(name) ==
    CASE name = " m2 " -> "m2"
      [] name = "" -> "unknown_metric"
      [] OTHER -> name

\* ins.topic.lower()
LowerTopic(topic) == IF topic = "Sales" THEN "sales" ELSE topic

ExShapes ==
    { [tags |-> <<"sales">>, metrics |-> <<"m1", " m2 ", "m3", "m4", "m5", "m6", "m7">>,
       confidence |-> "high"],
      [tags |-> <<"sales", "ops">>, metrics |-> <<"M1", "m8">>, confidence |-> "mid"],
      [tags |-> <<"ops", "sales">>, metrics |-> <<>>, confidence |-> "low"],
      [tags |-> <<"Sales">>, metrics |-> <<"m1", "">>, confidence |-> "low"],
      [tags |-> <<>>, metrics |-> <<"m9">>, confidence |-> "mid"],
      [tags |-> <<>>, metrics |-> <<>>, confidence |-> "high"] }

InsightInputs ==
    [extractions : UNION {[1..n -> ExShapes] : n \in 0..MaxEx},
     max_topics : 0..MaxTopicsIn,
     max_insights : (0 - 1)..MaxInsightsIn]

Count(seq, x) == Cardinality({i \in DOMAIN seq : seq[i] = x})

RECURSIVE FirstSeen(_, _)
FirstSeen(seq, seen) ==
    IF seq = <<>> THEN <<>>
    ELSE IF Head(seq) \in seen THEN FirstSeen(Tail(seq), seen)
         ELSE <<Head(seq)>> \o FirstSeen(Tail(seq), seen \cup {Head(seq)})

\* sorted(..., key=score, reverse=True): equal scores keep their order
RECURSIVE SortDesc(_)
SortDesc(recs) ==
    IF recs = <<>> THEN <<>>
    ELSE LET m == CHOOSE s \in {recs[i].score : i \in DOMAIN recs} :
                      \A i \in DOMAIN recs : recs[i].score <= s
             Top(rec) == rec.score = m
             Rest(rec) == rec.score # m
         IN  SelectSeq(recs, Top) \o SortDesc(SelectSeq(recs, Rest))

\* Counter(tags).most_common(n)
most_common(tags, n) ==
    LET keys == FirstSeen(tags, {})
        byCount == SortDesc([i \in DOMAIN keys |->
                                [topic |-> keys[i], score |-> Count(tags, keys[i])]])
        k == IF n < 0 THEN 0 ELSE Min(n, Len(byCount))
    IN  [i \in 1..k |-> byCount[i].topic]

TopicsOf(extractions, max_topics) ==
    LET tags == Concat([i \in DOMAIN extractions |-> extractions[i].tags])
        topics == most_common(tags, max_topics)
    IN  IF topics = <<>> THEN <<"misc">> ELSE topics

topic_for_extraction(ex) == IF ex.tags # <<>> THEN ex.tags[1] ELSE "misc"

\* how often a canonical metric name occurs over all extractions
MetricFreq(extractions, canon) ==
    Count(Concat([i \in DOMAIN extractions |->
                    [j \in DOMAIN extractions[i].metrics |->
                        canonical_metric_name(extractions[i].metrics[j])]]), canon)

\* the importance score of a metric without comparisons and without agenda
MetricScore(extractions, ex, name) ==
    LET freq == MetricFreq(extractions, canonical_metric_name(name))
        s == 10 + Min(20, 5 * (IF freq > 1 THEN freq - 1 ELSE 0))
               + (CASE ex.confidence = "high" -> 10
                    [] ex.confidence = "low" -> 0 - 10
                    [] OTHER -> 0)
    IN  IF s < 0 THEN 0 ELSE Min(100, s)

\* the candidate insights of one extraction
CandidatesOf(extractions, topics, ex) ==
    LET t0 == topic_for_extraction(ex)
        topic == IF t0 \in Range(topics) THEN t0 ELSE topics[1]
        used == SubSeq(ex.metrics, 1, Min(metrics_per_asset, Len(ex.metrics)))
    IN  IF ex.metrics # <<>>
          THEN [j \in DOMAIN used |->
                   [topic |-> topic, headline |-> HeadlineOf(used[j]),
                    score |-> MetricScore(extractions, ex, used[j])]]
          ELSE << [topic |-> topic, headline |-> NeedsData, score |-> 5] >>

Candidates(extractions, topics) ==
    Concat([i \in DOMAIN extractions |-> CandidatesOf(extractions, topics, extractions[i])])

\* one insight per (lower-cased topic, canonical headline), the best first
RECURSIVE DedupFrom(_, _)
DedupFrom(sorted, seen) ==
    IF sorted = <<>> THEN <<>>
    ELSE LET ins == Head(sorted)
             key == <<LowerTopic(ins.topic), canonical_metric_name(ins.headline)>>
         IN  IF key \in seen THEN DedupFrom(Tail(sorted), seen)
             ELSE <<ins>> \o DedupFrom(Tail(sorted), seen \cup {key})

\* the candidates kept without looking at their keys
dedup_keep_all(sorted) == sorted

\* the de-duplication loop over the candidates, best score first
dedup(sorted) == DedupFrom(sorted, {})

TopicCount(selected, topic) ==
    Cardinality({i \in DOMAIN selected : selected[i].topic = topic})

RECURSIVE SelectFrom(_, _, _)
SelectFrom(rest, selected, max_insights) ==
    IF rest = <<>> \/ Len(selected) >= max_insights THEN selected
    ELSE IF TopicCount(selected, Head(rest).topic) >= per_topic_cap
           THEN SelectFrom(Tail(rest), selected, max_insights)
           ELSE SelectFrom(Tail(rest), Append(selected, Head(rest)), max_insights)

\* the selection kept without any cap
select_insights_all(deduped, max_insights) == deduped

\* the selection loop with the total cap and the cap per topic
select_insights(deduped, max_insights) == SelectFrom(deduped, <<>>, max_insights)

\* the final topics: appended first, the cap is looked at afterwards
RECURSIVE FinalTopicsFrom(_, _, _)
FinalTopicsFrom(rest, final, max_topics) ==
    IF rest = <<>> THEN final
    ELSE LET f == IF Head(rest).topic \in Range(final) THEN final
                  ELSE Append(final, Head(rest).topic)
         IN  IF Len(f) >= max_topics THEN f
             ELSE FinalTopicsFrom(Tail(rest), f, max_topics)

generate_insights(extractions, max_topics, max_insights) ==
    LET topics == TopicsOf(extractions, max_topics)
        deduped == dedup(SortDesc(Candidates(extractions, topics)))
        selected == select_insights(deduped, max_insights)
    IN  [applied |-> TRUE,
         topics |-> FinalTopicsFrom(selected, <<>>, max_topics),
         selected |-> selected,
         deduped |-> deduped,
         candidates |-> Len(deduped)]

GenerateInsights ==
    /\ fn_out = NotApplied
    /\ fn_out' = generate_insights(fn_in.extractions, fn_in.max_topics, fn_in.max_insights)
    /\ UNCHANGED <<avars, sbvars, bvars, qvars, fn_in>>

InitInsights ==
    /\ AIdle /\ SbIdle /\ BIdle /\ QIdle
    /\ fn_in \in InsightInputs /\ fn_out = NotApplied

SpecInsights == InitInsights /\ [][GenerateInsights]_vars

\* the three caps on what generate_insights returned
CapsKept ==
    /\ Len(fn_out.selected) <= fn_in.max_insights
    /\ \A i \in DOMAIN fn_out.selected :
         TopicCount(fn_out.selected, fn_out.selected[i].topic) <= per_topic_cap
    /\ Len(fn_out.topics) <= fn_in.max_topics

\* C16 as stated: for any extraction set and any max_topics and
\* max_insights, generate_insights selects at most max_insights insights,
\* at most 5 of one topic, and returns at most max_topics final topics.
C16_Original == fn_out.applied => CapsKept

\* C16: for any extraction set, max_topics of at least 1 and max_insights of
\* at least 0, generate_insights selects at most max_insights insights, at
\* most 5 of one topic, and returns at most max_topics final topics.
C16_CapsForValidBounds ==
    (fn_out.applied /\ fn_in.max_topics >= 1 /\ fn_in.max_insights >= 0) => CapsKept

\* seven candidates of the topic sales and room for six insights: the cap
\* per topic stopped the selection at five
C16_Witness ==
    /\ fn_out.applied /\ fn_in.max_topics = 2 /\ fn_in.max_insights = 6
    /\ fn_out.candidates = 7
    /\ Len(fn_out.selected) = per_topic_cap
    /\ TopicCount(fn_out.selected, "sales") = per_topic_cap
    /\ fn_out.topics = <<"sales">>

\* the key of the de-duplication
InsightKey(ins) == <<LowerTopic(ins.topic), canonical_metric_name(ins.headline)>>

\* the candidates generate_insights built from its input, best score first
SortedCandidates ==
    SortDesc(Candidates(fn_in.extractions,
                        TopicsOf(fn_in.extractions, fn_in.max_topics)))

\* C25: of the candidates with one (topic, canonical headline) key the
\* de-duplication keeps exactly the first in descending order of score: no
\* two kept or selected insights share a key, and the one kept has the
\* highest score among the candidates with its key.
C25_FirstOfEachKey ==
    fn_out.applied =>
        LET sorted == SortedCandidates
            kept == fn_out.deduped
            FirstOf(key) == CHOOSE i \in DOMAIN sorted :
                               /\ InsightKey(sorted[i]) = key
                               /\ \A j \in 1..(i - 1) : InsightKey(sorted[j]) # key
        IN  /\ \A i, j \in DOMAIN kept :
                 i # j => InsightKey(kept[i]) # InsightKey(kept[j])
            /\ \A i \in DOMAIN sorted :
                 \E k \in DOMAIN kept : InsightKey(kept[k]) = InsightKey(sorted[i])
            /\ \A k \in DOMAIN kept :
                 /\ kept[k] = sorted[FirstOf(InsightKey(kept[k]))]
                 /\ \A i \in DOMAIN sorted :
                      InsightKey(sorted[i]) = InsightKey(kept[k])
                          => sorted[i].score <= kept[k].score
            /\ \A i, j \in DOMAIN fn_out.selected :
                 i # j => InsightKey(fn_out.selected[i]) # InsightKey(fn_out.selected[j])
            /\ \A i \in DOMAIN fn_out.selected :
                 \E k \in DOMAIN kept : fn_out.selected[i] = kept[k]

\* two candidates of the topic sales share the key of m1, one written
\* "Sales" and "M1" or scored lower: the better one alone was selected
C25_Witness ==
    /\ fn_out.applied
    /\ \E i, j \in DOMAIN SortedCandidates :
         /\ i < j
         /\ InsightKey(SortedCandidates[i]) = InsightKey(SortedCandidates[j])
         /\ SortedCandidates[i].headline # SortedCandidates[j].headline
         /\ SortedCandidates[i].score > SortedCandidates[j].score
         /\ \E k \in DOMAIN fn_out.selected :
              fn_out.selected[k] = SortedCandidates[i]
         /\ \A k \in DOMAIN fn_out.selected :
              fn_out.selected[k] # SortedCandidates[j]

\* ---------------------------------------------------------------------
\* _prepare_image_bytes_for_anthropic. An image file is a record of the
\* length of its bytes, its suffix, whether Pillow can open it, the longer
\* side of the picture and how many bytes a JPEG of it takes per thousand
\* pixels at quality 100.

ANTHROPIC_IMAGE_MAX_B64_BYTES == 5 * 1024 * 1024
ANTHROPIC_IMAGE_MAX_BYTES == 3 * (ANTHROPIC_IMAGE_MAX_B64_BYTES \div 4)

shrink_rounds == 12
start_longest_floor == 1200
longest_dim_floor == 640
qualities == <<90, 85, 80, 75, 70, 65, 60, 55, 50, 45>>

ImageFiles ==
    [len : {0, 1000, ANTHROPIC_IMAGE_MAX_BYTES - 1, ANTHROPIC_IMAGE_MAX_BYTES,
            ANTHROPIC_IMAGE_MAX_BYTES + 1, 8000000, 40000000},
     suffix : {".png", ".jpg", ".webp"},
     pillow : BOOLEAN,
     opens : BOOLEAN,
     longest : {600, 4000, 8000},
     density : {1, 100, 8000, 30000}]

\* _mime_for_image
mime_for_image(suffix) ==
    CASE suffix = ".png" -> "image/png"
      [] suffix \in {".jpg", ".jpeg"} -> "image/jpeg"
      [] OTHER -> "application/octet-stream"

\* len(base64.b64encode(b)) for b of n bytes
B64Len(n) == 4 * ((n + 2) \div 3)

\* len(_encode_jpeg_bytes(im2, quality=q)) for a picture of longer side dim
EncodedLen(dim, q, density) == ((dim * dim) \div 1000) * ((q * density) \div 100)

\* the largest s with s * s <= x
Isqrt(x) == CHOOSE s \in 0..1000 : s * s <= x /\ (s + 1) * (s + 1) > x

\* floor(longest * sqrt(ratio)) between the floor of 1200 and longest, the
\* ratio taken in thousandths and held between 0.2 and 1.0
start_longest(len, longest) ==
    LET kib == len \div 1024
        ratio == IF len > 0
                   THEN IF kib = 0 THEN 1000
                        ELSE ((ANTHROPIC_IMAGE_MAX_BYTES \div 1024) * 1000) \div kib
                   ELSE 500
        held == IF ratio < 200 THEN 200 ELSE Min(1000, ratio)
        s == (longest * Isqrt(held * 1000)) \div 1000
    IN  IF Min(longest, s) < start_longest_floor THEN start_longest_floor
        ELSE Min(longest, s)

\* the first quality whose JPEG fits, 0 when none does
RECURSIVE FirstFit(_, _, _, _)
FirstFit(qs, dim, density, limit) ==
    IF qs = <<>> THEN 0
    ELSE IF EncodedLen(dim, Head(qs), density) <= limit THEN Head(qs)
         ELSE FirstFit(Tail(qs), dim, density, limit)

\* the rounds of the shrink loop from round number n on
RECURSIVE ShrinkFrom(_, _, _, _, _)
ShrinkFrom(n, longest_dim, longest, density, limit) ==
    IF n > shrink_rounds
      THEN [applied |-> TRUE, raised |-> TRUE, mime |-> "", len |-> 0,
            original |-> FALSE, rounds |-> n - 1]
      ELSE LET dim == Min(longest, longest_dim)
               q == FirstFit(qualities, dim, density, limit)
               smaller == (longest_dim * 85) \div 100
           IN  IF q # 0
                 THEN [applied |-> TRUE, raised |-> FALSE, mime |-> "image/jpeg",
                       len |-> EncodedLen(dim, q, density), original |-> FALSE,
                       rounds |-> n]
                 ELSE IF smaller < longest_dim_floor
                        THEN [applied |-> TRUE, raised |-> TRUE, mime |-> "", len |-> 0,
                              original |-> FALSE, rounds |-> n]
                        ELSE ShrinkFrom(n + 1, smaller, longest, density, limit)

\* the ceiling mistaken for the limit of the encoded text
raw_limit_is_b64_limit == ANTHROPIC_IMAGE_MAX_B64_BYTES

\* the ceiling on raw bytes the function compares with
raw_limit == ANTHROPIC_IMAGE_MAX_BYTES

prepare_image_bytes_for_anthropic(file) ==
    LET mime == mime_for_image(file.suffix)
    IN  IF mime \in {"image/png", "image/jpeg"} /\ file.len <= raw_limit
          THEN [applied |-> TRUE, raised |-> FALSE, mime |-> mime, len |-> file.len,
                original |-> TRUE, rounds |-> 0]
          ELSE IF ~ file.pillow \/ ~ file.opens
                 THEN [applied |-> TRUE, raised |-> TRUE, mime |-> "", len |-> 0,
                       original |-> FALSE, rounds |-> 0]
                 ELSE ShrinkFrom(1, start_longest(file.len, file.longest), file.longest,
                                 file.density, raw_limit)

PrepareImage ==
    /\ fn_out = NotApplied
    /\ fn_out' = prepare_image_bytes_for_anthropic(fn_in)
    /\ UNCHANGED <<avars, sbvars, bvars, qvars, fn_in>>

InitImage ==
    /\ AIdle /\ SbIdle /\ BIdle /\ QIdle
    /\ fn_in \in ImageFiles /\ fn_out = NotApplied

SpecImage == InitImage /\ [][PrepareImage]_vars

\* C17: _prepare_image_bytes_for_anthropic raises or returns bytes whose
\* base64 text has at most 5*1024*1024 characters; a PNG or JPEG file of at
\* most 3,932,160 bytes is returned as it is; the shrink loop runs at most
\* 12 rounds.
C17_FitsOrRaises ==
    fn_out.applied =>
        /\ fn_out.raised \/ B64Len(fn_out.len) <= 5 * 1024 * 1024
        /\ (fn_in.suffix \in {".png", ".jpg"} /\ fn_in.len <= 3932160)
             => /\ ~ fn_out.raised /\ fn_out.original
                /\ fn_out.len = fn_in.len
                /\ fn_out.mime = mime_for_image(fn_in.suffix)
        /\ fn_out.rounds <= 12

\* a file above the ceiling came back as a JPEG that fits, after the loop
\* had to lower the resolution through all twelve rounds
C17_Witness ==
    /\ fn_out.applied /\ ~ fn_out.raised /\ ~ fn_out.original
    /\ fn_in.len > 3932160
    /\ fn_out.rounds = 12
    /\ B64Len(fn_out.len) <= 5 * 1024 * 1024

\* ---------------------------------------------------------------------
\* The admin refresh endpoint and its token.

\* the step in which manual_refresh takes up a request
AdminRequest == pc["admin"] = "idle" /\ pc'["admin"] # "idle"

\* C18: with an admin_token configured, a POST /admin/refresh whose
\* x-intel-token header is absent or different is answered 401, creates no
\* RefreshRun and runs no ingestion; with no admin_token configured the
\* header is not looked at, the run is created and the ingestion starts.
C18_TokenGuardsRefresh ==
    [][AdminRequest =>
         IF req'.expected \notin {NoToken, ""} /\ req'.token # req'.expected
           THEN /\ outcome'["admin"] = "401" /\ pc'["admin"] = "done"
                /\ refresh_runs' = refresh_runs
                /\ items' = items /\ tx' = tx /\ stats' = stats
           ELSE /\ Len(refresh_runs') = Len(refresh_runs) + 1
                /\ refresh_runs'[Len(refresh_runs')].status = "running"
                /\ pc'["admin"] = "wyze"
                /\ outcome'["admin"] # "401"]_vars

\* a request without the header was answered 401 while a token is
\* configured, and no run exists
C18_Witness ==
    /\ pc["admin"] = "done" /\ outcome["admin"] = "401"
    /\ req.expected = "secret" /\ req.token = NoToken
    /\ refresh_runs = <<>>

\* ---------------------------------------------------------------------
\* The emerging pipeline on one generic item, for configured lists.

CandidateNames == {"aqara", "simpliSafe", "TP-Link", "tp link", "wyze", "wyze ", ""}
MainNames == {"ring", "tp-link", "Aqara"}
Mentionable == {"aqara", "simplisafe", "tp link", "wyze", "ring"}

EmergingInputs ==
    [mentions : SUBSET Mentionable, candidates : SUBSET CandidateNames,
     mains : SUBSET MainNames]

\* an item as a fetcher returns it, its text holding the given names
GenericItem(mentions) ==
    [title |-> "A", url |-> "u1", summary |-> "s1", published_at |-> 0,
     engagement_score |-> 0, mentions |-> mentions]

\* the body of the loop of _topic_emerging for one item
EmergingItem ==
    /\ fn_out = NotApplied
    /\ fn_out' = [applied |-> TRUE,
                  collected |-> EmergingOf(GenericItem(fn_in.mentions),
                                           AllCandidates(fn_in.candidates),
                                           MainSet(fn_in.mains))]
    /\ UNCHANGED <<avars, sbvars, bvars, qvars, fn_in>>

InitEmerging ==
    /\ AIdle /\ SbIdle /\ BIdle /\ QIdle
    /\ fn_in \in EmergingInputs /\ fn_out = NotApplied

SpecEmerging == InitEmerging /\ [][EmergingItem]_vars

\* the configured candidates the text of the item matches
MatchedCandidates ==
    {c \in fn_in.candidates : c # "" /\ normalize_key(c) \in fn_in.mentions}

\* the matched candidates that are neither a main competitor nor wyze
EmergingBrands ==
    {Lower(c) : c \in {d \in MatchedCandidates :
                          /\ normalize_key(d) \notin {normalize_key(m) : m \in fn_in.mains}
                          /\ normalize_key(d) # "wyze"}}

\* C19: for one generic item the emerging pipeline emits one record for
\* every matched candidate that is neither a main competitor (both names
\* lower-cased, hyphens turned to blanks) nor wyze, and no record whose
\* entity is a main competitor or wyze.
C19_Original ==
    fn_out.applied =>
        /\ Len(fn_out.collected) = Cardinality(EmergingBrands)
        /\ \A b \in EmergingBrands :
             \E i \in DOMAIN fn_out.collected : fn_out.collected[i].entity = Strip(b)
        /\ \A i \in DOMAIN fn_out.collected :
             /\ fn_out.collected[i].topic = "emerging"
             /\ fn_out.collected[i].entity # "wyze"
             /\ normalize_key(fn_out.collected[i].entity)
                  \notin {normalize_key(m) : m \in fn_in.mains}

\* ---------------------------------------------------------------------
\* The latest mirror after a sequence of builds.

\* the runs whose build went through
Succeeded == {r \in RunIds : b_runs[r].status = "succeeded"}

\* in SpecCli one build follows the other, each for a new run: the run
\* completed last is the succeeded run created last
LastCompleted == CHOOSE r \in Succeeded : \A s \in Succeeded : s <= r

\* the file is in out/<run_id>/
RunHas(r, f) ==
    CASE f = "extraction.jsonl" -> b_out[r].extraction # <<>>
      [] f = "insights.json" -> b_out[r].insights
      [] f = "topics.json" -> b_out[r].topics
      [] f = "deck.html" -> b_out[r].deck

\* C20: after any sequence of builds each of deck.html, extraction.jsonl,
\* insights.json and topics.json in the latest mirror is the file of the run
\* completed last, and the thumbnails of that run are in the mirror's thumbs.
C20_Original ==
    Succeeded # {} =>
        /\ \A f \in MirrorFiles :
             b_latest[f] = IF RunHas(LastCompleted, f) THEN LastCompleted ELSE 0
        /\ \A k \in b_out[LastCompleted].thumbs :
             <<LastCompleted, k>> \in b_latest["thumbs"]

\* ---------------------------------------------------------------------
\* Builds started by the CLI, the process taking every step it can take.

SpecCliLive == InitB /\ [][NextCli]_vars /\ WF_vars(NextCli)

\* C21: every run whose build was started, and so stands at queued or
\* running, reaches succeeded or failed; an exception that leaves the
\* orchestrator ends with the run marked failed.
C21_Original ==
    \A r \in RunIds :
        (b_runs[r].status \in {"queued", "running"})
            ~> (b_runs[r].status \in {"succeeded", "failed"})

\* ---------------------------------------------------------------------
\* The order of the steps of run_full_ingestion.

IngestionOrder == <<"wyze", "sentiment", "competitor", "emerging", "commit", "cleanup">>

IsPrefix(a, b) == Len(a) <= Len(b) /\ SubSeq(b, 1, Len(a)) = a

\* the steps of the invocation of session s so far are the first steps of
\* the fixed order, and all of them once the orchestrator has returned
InOrder(s) ==
    /\ IsPrefix(log[s], IngestionOrder)
    /\ pc[s] = "returned" => log[s] = IngestionOrder
    /\ pc[s] = "cleanup" => log[s] = SubSeq(IngestionOrder, 1, 5)

\* C22: one invocation of run_full_ingestion runs the wyze, sentiment,
\* competitor and emerging pipelines in this order, then commits, then calls
\* the retention cleanup once, after the commit, and stores what the cleanup
\* returned, the number of items it deleted, as deleted_old.
C22_FixedOrder ==
    /\ [](\A s \in Sessions : InOrder(s))
    /\ [][\A s \in Sessions :
            /\ Len(log'[s]) > Len(log[s]) =>
                 log'[s] = Append(log[s], IngestionOrder[Len(log[s]) + 1])
            /\ (Len(log'[s]) = 6 /\ Len(log[s]) = 5) =>
                 /\ stats'[s].deleted_old = Cardinality(items \ items')
                 /\ stats'[s].inserted = stats[s].inserted]_vars

\* an invocation has returned with its six steps done in order, having
\* inserted an item and deleted an old one
C22_Witness ==
    \E s \in Sessions :
        /\ pc[s] = "returned" /\ log[s] = IngestionOrder
        /\ stats[s].deleted_old >= 1
        /\ stats[s].inserted >= 1

\* ---------------------------------------------------------------------
\* The pipeline banner of the TV context. Times are in hours; a RefreshRun
\* row is a record of its status, started_at and completed_at.

MaxTvRuns == 2

stale_after_hours == 48
TvNow == 100

NoRun == [status |-> "none", started_at |-> NoDate, completed_at |-> NoDate]

RunRows ==
    [status : {"success", "failed", "running"},
     started_at : {10, 60},
     completed_at : {NoDate, 51, 52, 100}]

TvInputs == UNION {[1..n -> RunRows] : n \in 0..MaxTvRuns}

\* latest_refresh_run: a row with the greatest started_at, None without rows
LatestRuns(rows) ==
    IF rows = <<>> THEN {NoRun}
    ELSE {rows[i] : i \in {j \in DOMAIN rows :
                              \A k \in DOMAIN rows : rows[k].started_at <= rows[j].started_at}}

\* ORDER BY completed_at DESC NULLS LAST, started_at DESC
Before(a, b) ==
    \/ a.completed_at # NoDate /\ b.completed_at = NoDate
    \/ a.completed_at # NoDate /\ b.completed_at # NoDate /\ a.completed_at > b.completed_at
    \/ a.completed_at = b.completed_at /\ a.started_at > b.started_at

\* latest_successful_refresh_run: a first row of that order among the
\* successes, None without a success
LatestSuccesses(rows) ==
    LET ok == {rows[i] : i \in {j \in DOMAIN rows : rows[j].status = "success"}}
    IN  IF ok = {} THEN {NoRun} ELSE {a \in ok : \A b \in ok : ~ Before(b, a)}

\* is_stale computed from the age of the last success alone
is_stale_by_age(success_dt, now_) ==
    success_dt # NoDate /\ now_ - success_dt > stale_after_hours

\* is_stale = not success_dt or (age and age > stale_after_hours * 3600)
is_stale(success_dt, now_) ==
    \/ success_dt = NoDate
    \/ (now_ - success_dt # 0 /\ now_ - success_dt > stale_after_hours)

\* the banner of _build_tv_context
banner(last_run, last_success, now_) ==
    LET success_dt == IF last_success = NoRun THEN NoDate ELSE last_success.completed_at
    IN  IF last_run # NoRun /\ last_run.status = "failed" THEN "danger"
        ELSE IF is_stale(success_dt, now_) THEN "stale"
        ELSE "none"

BuildTvContext ==
    /\ fn_out = NotApplied
    /\ \E last_run \in LatestRuns(fn_in), last_success \in LatestSuccesses(fn_in) :
         fn_out' = [applied |-> TRUE, last_run |-> last_run, last_success |-> last_success,
                    banner |-> banner(last_run, last_success, TvNow)]
    /\ UNCHANGED <<avars, sbvars, bvars, qvars, fn_in>>

InitTv ==
    /\ AIdle /\ SbIdle /\ BIdle /\ QIdle
    /\ fn_in \in TvInputs /\ fn_out = NotApplied

SpecTv == InitTv /\ [][BuildTvContext]_vars

\* the rows of the input with status success
Successes == {fn_in[i] : i \in {j \in DOMAIN fn_in : fn_in[j].status = "success"}}

\* the last run is a row started last, the last success a success completed
\* last
RightRows ==
    /\ fn_out.last_run \in LatestRuns(fn_in)
    /\ fn_out.last_success = NoRun <=> Successes = {}
    /\ fn_out.last_success # NoRun =>
         /\ fn_out.last_success \in Successes
         /\ \A b \in Successes : b.completed_at <= fn_out.last_success.completed_at

LastRunFailed == fn_out.last_run # NoRun /\ fn_out.last_run.status = "failed"

\* a last success exists and is older than stale_after_hours hours
LastSuccessOld ==
    /\ fn_out.last_success # NoRun /\ fn_out.last_success.completed_at # NoDate
    /\ TvNow - fn_out.last_success.completed_at > 48

\* C23 as stated: the TV context has a danger banner when the last run
\* failed, else a warning banner when the last success is older than
\* stale_after_hours hours, and in every other case, no run or no
\* successful run included, no banner.
C23_Original ==
    fn_out.applied =>
        fn_out.banner = IF LastRunFailed THEN "danger"
                        ELSE IF LastSuccessOld THEN "stale" ELSE "none"

\* C23: the TV context has a danger banner when the last run failed, else
\* a warning banner when there is no successful run with a completion time
\* or the last success is older than stale_after_hours hours, else no banner.
C23_BannerByHealth ==
    fn_out.applied =>
        /\ RightRows
        /\ fn_out.banner =
             IF LastRunFailed THEN "danger"
             ELSE IF \/ fn_out.last_success = NoRun
                     \/ fn_out.last_success.completed_at = NoDate
                     \/ LastSuccessOld
                    THEN "stale" ELSE "none"

\* the last run is running, the last success is exactly stale_after_hours
\* hours old, and there is no banner
C23_Witness ==
    /\ fn_out.applied /\ fn_out.banner = "none"
    /\ fn_out.last_run.status = "running"
    /\ fn_out.last_success.completed_at = TvNow - 48

\* ---------------------------------------------------------------------
\* The importance score of a metric candidate. A delta is the text of
\* best_cmp.delta_pct or best_cmp.delta_abs, None when absent.

MaxFreq == 6

None == "None"
DeltaPcts == {None, "", "+12%", "-7.5%", "3%", "12", "n/a%", "\\d%"}
DeltaAbs == {None, "+5"}

\* _NUM_RE.search: the pattern is the raw string [-+]?\\d+(?:\\.\\d+)?, an
\* optional sign, a backslash and one or more letters d; the text matched,
\* None when there is no match
num_re_search(s) == IF s = "\\d%" THEN "\\d" ELSE None

\* the result of a parse that gives no number
NoNumber == 0 - 1

\* abs(float(text)): the magnitude in tenths, NoNumber when float raises
\* ValueError
to_float(text) ==
    CASE text = "12" -> 120
      [] text = "7.5" -> 75
      [] text = "3" -> 30
      [] OTHER -> NoNumber

\* "%" in s
HasPercent(s) == s \in {"+12%", "-7.5%", "3%", "n/a%", "\\d%"}

\* abs(_parse_pct(s)), in tenths of a percent
parse_pct(s) ==
    IF s \in {None, ""} THEN NoNumber
    ELSE IF ~ HasPercent(s) THEN NoNumber
    ELSE IF num_re_search(s) = None THEN NoNumber
    ELSE to_float(num_re_search(s))

ScoreInputs ==
    [delta_pct : DeltaPcts, delta_abs : DeltaAbs, freq : 1..MaxFreq,
     agenda_bonus : {0, 10}, confidence : {"high", "mid", "low"}]

\* best_cmp: the comparison is chosen when it has a delta_pct or a delta_abs
HasBestCmp(c) == c.delta_pct \notin {None, ""} \/ c.delta_abs \notin {None, ""}

\* the score heuristic of generate_insights
importance_score(c) ==
    LET pct == IF HasBestCmp(c) THEN parse_pct(c.delta_pct) ELSE NoNumber
        s == 10
             + (IF pct = NoNumber THEN 0
                ELSE IF pct >= 100 THEN 30 ELSE IF pct >= 50 THEN 20 ELSE 10)
             + (IF HasBestCmp(c) /\ c.delta_abs \notin {None, ""} THEN 10 ELSE 0)
             + Min(20, 5 * (IF c.freq > 1 THEN c.freq - 1 ELSE 0))
             + c.agenda_bonus
             + (CASE c.confidence = "high" -> 10
                  [] c.confidence = "low" -> 0 - 10
                  [] OTHER -> 0)
    IN  IF s < 0 THEN 0 ELSE Min(100, s)

ScoreCandidate ==
    /\ fn_out = NotApplied
    /\ fn_out' = [applied |-> TRUE, score |-> importance_score(fn_in)]
    /\ UNCHANGED <<avars, sbvars, bvars, qvars, fn_in>>

InitScore ==
    /\ AIdle /\ SbIdle /\ BIdle /\ QIdle
    /\ fn_in \in ScoreInputs /\ fn_out = NotApplied

SpecScore == InitScore /\ [][ScoreCandidate]_vars

\* the magnitude, in tenths of a percent, of the percentage a delta text
\* carries; NoNumber when it carries none
PctMagnitude(s) ==
    CASE s = "+12%" -> 120
      [] s = "-7.5%" -> 75
      [] s = "3%" -> 30
      [] OTHER -> NoNumber

\* the score without the term of the percentage delta
ScoreBesidesPct ==
    10 + (IF fn_in.delta_abs # None THEN 10 ELSE 0)
       + Min(20, 5 * (fn_in.freq - 1)) + fn_in.agenda_bonus
       + (IF fn_in.confidence = "high" THEN 10
          ELSE IF fn_in.confidence = "low" THEN 0 - 10 ELSE 0)

\* C24: for a metric candidate whose comparison carries a percentage delta
\* the score holds, on top of the base of 10, a term of 30 when the
\* magnitude of the delta is at least 10, of 20 when it is at least 5 and of
\* 10 otherwise; the term is absent only without a percentage delta; the
\* score lies in 0..100.
C24_Original ==
    fn_out.applied =>
        LET mag == PctMagnitude(fn_in.delta_pct)
            term == IF mag = NoNumber THEN 0
                    ELSE IF mag >= 100 THEN 30 ELSE IF mag >= 50 THEN 20 ELSE 10
            raw == ScoreBesidesPct + term
        IN  /\ fn_out.score = (IF raw < 0 THEN 0 ELSE Min(100, raw))
            /\ fn_out.score \in 0..100

\* ---------------------------------------------------------------------
\* The status of a run over its life.

StatusNext ==
    { <<"absent", "created">>, <<"created", "queued">>, <<"created", "running">>,
      <<"queued", "running">>, <<"running", "succeeded">>, <<"running", "failed">> }

\* C27: the status of a run changes only along created, queued, running and
\* then succeeded or failed, the CLI going from created to running: a run
\* that is succeeded or failed keeps its status, and no run returns to
\* created or queued.
C27_Original ==
    [][\A r \in RunIds :
          b_runs'[r].status # b_runs[r].status
              => /\ <<b_runs[r].status, b_runs'[r].status>> \in StatusNext
                 /\ b_runs[r].status \notin {"succeeded", "failed"}]_vars

\* ---------------------------------------------------------------------
\* A refresh whose orchestrator raises before its commit went through.

BeforeCommit == {"wyze", "sentiment", "competitor", "emerging", "commit"}

\* a step of the invocation s that ends in the failure, or handles it
FailingStep(s) ==
    \/ pc[s] \in BeforeCommit /\ pc'[s] = "raised"
    \/ pc[s] = "raised" /\ pc'[s] = "done"

C28_Inv ==
    \A s \in Server :
        pc[s] = "raised" =>
            /\ \A i \in DOMAIN log[s] : log[s][i] \notin {"commit", "cleanup"}
            /\ run[s] \in 1..Len(refresh_runs)
            /\ refresh_runs[run[s]].status = "running"

C28_Act ==
    \A s \in Server :
        /\ (pc[s] \in BeforeCommit /\ pc'[s] \in BeforeCommit /\ pc'[s] # pc[s])
              => items' = items
        /\ FailingStep(s) => items' = items
        /\ (pc[s] = "raised" /\ pc'[s] = "done")
              => /\ tx'[s] = EmptyTx
                 /\ Len(refresh_runs') = Len(refresh_runs)
                 /\ refresh_runs'[run[s]].status = "failed"
                 /\ refresh_runs'[run[s]].items_ingested = 0
                 /\ \A i \in 1..Len(refresh_runs) :
                      i # run[s] => refresh_runs'[i] = refresh_runs[i]

\* C28: when run_full_ingestion raises before its commit went through, no
\* step of that invocation, the rollback of the scheduler job or of the
\* admin endpoint included, changes the stored items: nothing the run
\* inserted or updated is persisted; its RefreshRun row stays stored and is
\* marked failed.
C28_RollbackKeepsStore == []C28_Inv /\ [][C28_Act]_vars

\* an invocation that had counted an insert ended in failed with its
\* pending state discarded
C28_Witness ==
    \E s \in Server :
        /\ pc[s] = "done" /\ outcome[s] \in {"500", "logged"}
        /\ stats[s].inserted > 0
        /\ tx[s] = EmptyTx
        /\ refresh_runs[run[s]].status = "failed"
        /\ refresh_runs[run[s]].items_ingested = 0

\* ---------------------------------------------------------------------
\* The latest mirror and the builds that do not get to publishing.

\* a step that ends a build before _publish_latest was called
BuildFailsEarly ==
    /\ b_build.pc \notin {"idle", "publish"}
    /\ b_build'.pc = "idle"

\* C29: a build that fails before publishing leaves the latest mirror as it
\* was: no step of a build before _publish_latest changes the mirror, and
\* the step that ends such a build changes neither the mirror nor the files
\* of another run, so the mirror keeps what the build completed before put
\* there.
C29_FailedBuildKeepsMirror ==
    /\ [][b_latest' # b_latest =>
            /\ b_build.pc = "publish"
            /\ b_runs'[b_build.run].status = "succeeded"]_vars
    /\ [][BuildFailsEarly =>
            /\ b_latest' = b_latest
            /\ b_runs'[b_build.run].status # "succeeded"
            /\ \A r \in RunIds : r # b_build.run => b_out'[r] = b_out[r]]_vars

\* run 1 completed and is in the mirror; the build of run 2 ended before
\* publishing, with files of its own written
C29_Witness ==
    /\ b_build.pc = "idle"
    /\ b_runs[1].status = "succeeded"
    /\ b_runs[2].status = "running"
    /\ b_runs[2].stage \in {"extracting", "synthesizing", "rendering"}
    /\ b_out[2].extraction # <<>>
    /\ \A f \in MirrorFiles : b_latest[f] = 1
    /\ \A pair \in b_latest["thumbs"] : pair[1] = 1

\* ---------------------------------------------------------------------
\* The progress counters of a run.

ProgressInRange ==
    \A r \in RunIds :
        b_runs[r].status # "absent" =>
            /\ 0 <= b_runs[r].progress_current
            /\ b_runs[r].progress_current <= b_runs[r].progress_total

\* C30: in every stored state of a run progress_current lies between 0 and
\* progress_total; while the stage is extracting progress_current does not
\* decrease; and when the run becomes succeeded progress_current equals
\* progress_total.
C30_Original ==
    /\ [] ProgressInRange
    /\ [][\A r \in RunIds :
            /\ (b_runs[r].stage = "extracting" /\ b_runs'[r].stage = "extracting")
                  => b_runs'[r].progress_current >= b_runs[r].progress_current
            /\ (b_runs[r].status # "succeeded" /\ b_runs'[r].status = "succeeded")
                  => b_runs'[r].progress_current = b_runs'[r].progress_total]_vars

====
